---------------------------- MODULE Spec2Model ----------------------------
(***************************************************************************)
(* Process supervision, event intake and time-series merge of the Threads  *)
(* tracker: parsers_bridge.py (supervisor and watchdog), parser_events.py  *)
(* (bounded intake queue and its consumer) and ParserPost.py (timeline     *)
(* normalisation, merge, hourly bucketing, the 24 h history window and the *)
(* application of a posts batch to the user documents).                    *)
(*                                                                         *)
(* Time is in seconds.  A timestamp string is a record                     *)
(*   [kind, local, off]: kind "bad" is a missing or unparsable string,     *)
(*   "Z" a string ending in Z, "naive" one without an offset, "offset"     *)
(*   one with an explicit UTC offset; local is the wall-clock reading and  *)
(*   off the offset, so the instant it denotes is local - off.             *)
(* A datetime is a record [ok, local, off]; ok = FALSE is Python's None.   *)
(* A metric value is a record [isint, v]; isint = FALSE is anything that   *)
(* is not an int (None, a string, a float).                                *)
(***************************************************************************)
EXTENDS Integers, Sequences, FiniteSets, TLC

VARIABLES
    \* ---- merge engine inputs and result (ParserPost.py) ----
    tlA, tlB, tlC,      \* raw timelines handed to the engine
    startTs,            \* tracking start used by the hourly computation
    outRows,            \* rows returned by _compute_hourly_metric
    outTl,              \* timeline returned by the last engine call
    lastOp,             \* the engine call that produced outTl / outRows
    \* ---- event intake (parser_events.py) ----
    eventQueue,         \* _EVENT_QUEUE: the events put and not yet got
    subResult,          \* what the last enqueue_parser_event call returned
    workerTask,         \* _WORKER_TASK: "none", "running" or "done"
    workerPc,           \* where _worker_loop stands: "check", "get", "apply"
    stopEvent,          \* _STOP_EVENT.is_set()
    inflight,           \* the event being applied: <<>> or <<event>>
    lastOk,             \* _LAST_OK_UTC is set
    lastError,          \* _LAST_ERROR: "" or the exception's name
    strayWorkers,       \* _worker_loop tasks still alive that _WORKER_TASK no
                        \* longer refers to
    startResult,        \* what the last start_parser_event_worker call did:
                        \* "none" (no call yet), "created" or "kept"
    \* ---- supervisor (parsers_bridge.py), one entry per worker kind ----
    process,            \* _posts_process / _accounts_process: "none", or a
                        \* handle whose process is "running" or has "exited"
    startedAt,          \* _posts_started_at / _accounts_started_at, or NoTime
    expectedRunning,    \* _posts_expected_running / _accounts_expected_running
    logHandle,          \* _posts_log_handle / _accounts_log_handle is open
    watchdogStarted,    \* _watchdog_started
    wdNow,              \* the watchdog loop's local now
    wdRestartAt,        \* the start time of the watchdog's last restart of
                        \* the kind, or NoTime
    wdSpared,           \* the kinds whose heartbeat this iteration found stale
                        \* by content and left alone for the grace period
    \* ---- the supervisor's surroundings ----
    orphans,            \* live OS processes running the kind's script that
                        \* the handle does not hold
    now,                \* time.time()
    \* ---- the two callers ----
    wdTodo,             \* what the watchdog thread has left of its iteration
    webTodo,            \* what the request thread has left of its call
    serial,             \* the callers take turns (no interleaving of calls)
    ticks, calls,       \* iterations and calls begun so far
    callLog,            \* the control calls made back to back, each with the
                        \* state it left behind
    \* ---- one tracking window under _update_history_24h (ParserPost.py) ----
    winIn,              \* the tracking handed to the call
    winNow,             \* the now_ts handed to the call
    winOut,             \* the tracking the call returned
    winOp,              \* "none", "first" or "again": the calls made so far
    \* ---- the store of user documents (ParserPost.py) ----
    docs,               \* the user documents on disk, one per owner
    clock,              \* datetime.now(timezone.utc), in seconds
    lastSnap,           \* the snapshot of the batch applied last, if any
    storeOp,            \* "none", "apply" or "again" (the same batch twice)
    applies,            \* batches applied so far
    \* ---- the heartbeat classifier (parsers_bridge.py) ----
    hcHealth,           \* the heartbeat file's content as read
    hcStarted,          \* the started_at handed to _health_stale
    hcNow,              \* time.time() inside _health_stale
    hcOut,              \* what _health_stale returned
    \* ---- startup validation of the document store (main.py) ----
    userDir,            \* USERS_DIR: file name -> content
    backupDir,          \* BACKUP_DIR: file name -> content
    invalidDir,         \* INVALID_JSON_DIR: the files moved there
    report,             \* what validate_json_bd_on_startup returned
    valOp,              \* "none", "validated" or "backed up"
    \* ---- two batches of one post applied in either order (ParserPost.py) ----
    ordDocs,            \* the store that gets the earlier snapshot first
    revDocs,            \* the same store getting the later snapshot first
    ordSnaps,           \* the two snapshots, earlier fetch first
    ordNow,             \* the clock at the first and at the second application
    ordStep,            \* batches applied to each store so far
    \* ---- one call of _merge_tracking (ParserPost.py) ----
    mtBase,             \* base_tracking
    mtExtra,            \* extra_tracking
    mtOut,              \* what the call returned
    mtOp,               \* "none" or "merged"
    \* ---- an accounts batch applied to the store (ACCSPARSER.py) ----
    accUsers,           \* the user documents on disk, one per owner
    accBatch,           \* the stats_by_url applied last
    accApplies,         \* batches applied so far
    \* ---- writers of the user documents and their locks ----
    lkFile,             \* the user documents on disk, one per owner
    lkHolder,           \* who holds the lock file of each document
    lkProc,             \* each writer's position and local copies
    lkDone,             \* operations begun by each writer so far
    \* ---- a worker's heartbeat file and the watchdog reading it ----
    hbFile,             \* HEALTH_PATH as a reader finds it
    hbTemp,             \* the temp file next to it
    hbProc,             \* the worker's position inside _health_update
    hbSeen              \* what _read_health returned last

mergeVars == <<tlA, tlB, tlC, startTs, outRows, outTl, lastOp>>
queueVars == <<eventQueue, subResult, workerTask, workerPc, stopEvent,
               inflight, lastOk, lastError, strayWorkers, startResult>>

supVars == <<process, startedAt, expectedRunning, logHandle, watchdogStarted,
             wdNow, wdRestartAt, wdSpared, orphans, now,
             wdTodo, webTodo, serial, ticks, calls>>

windowVars == <<winIn, winNow, winOut, winOp>>
storeVars == <<docs, clock, lastSnap, storeOp, applies>>
healthVars == <<hcHealth, hcStarted, hcNow, hcOut>>
validationVars == <<userDir, backupDir, invalidDir, report, valOp>>
orderVars == <<ordDocs, revDocs, ordSnaps, ordNow, ordStep>>
mergeCallVars == <<mtBase, mtExtra, mtOut, mtOp>>
accountsVars == <<accUsers, accBatch, accApplies>>
lockVars == <<lkFile, lkHolder, lkProc, lkDone>>
heartbeatVars == <<hbFile, hbTemp, hbProc, hbSeen>>
restVars == <<validationVars, orderVars, mergeCallVars,
              accountsVars, lockVars, heartbeatVars>>

vars == <<mergeVars, queueVars, supVars, callLog, windowVars, storeVars, healthVars, restVars>>

\* what an action of one component leaves alone
notMergeVars == <<queueVars, supVars, callLog, windowVars, storeVars, healthVars, restVars>>
notQueueVars == <<mergeVars, supVars, callLog, windowVars, storeVars, healthVars, restVars>>
notSupVars == <<mergeVars, queueVars, callLog, windowVars, storeVars, healthVars, restVars>>
notCallVars == <<mergeVars, queueVars, windowVars, storeVars, healthVars, restVars>>
notWindowVars == <<mergeVars, queueVars, supVars, callLog, storeVars, healthVars, restVars>>
notStoreVars == <<mergeVars, queueVars, supVars, callLog, windowVars, healthVars, restVars>>
notHealthVars == <<mergeVars, queueVars, supVars, callLog, windowVars, storeVars, restVars>>
coreVars == <<mergeVars, queueVars, supVars, callLog, windowVars, storeVars, healthVars>>
fileVars == <<accountsVars, lockVars, heartbeatVars>>
notValidationVars == <<coreVars, orderVars, mergeCallVars, fileVars>>
notOrderVars == <<coreVars, validationVars, mergeCallVars, fileVars>>
notMergeCallVars == <<coreVars, validationVars, orderVars, fileVars>>
startupVars == <<validationVars, orderVars, mergeCallVars>>
notAccountsVars == <<coreVars, startupVars, lockVars, heartbeatVars>>
notLockVars == <<coreVars, startupVars, accountsVars, heartbeatVars>>
notHeartbeatVars == <<coreVars, startupVars, accountsVars, lockVars>>

-----------------------------------------------------------------------------
(* Program constants *)

HOUR_SEC == 3600
TRACK_HOURS == 24
MSK_OFFSET_HOURS == 3
DAY_SEC == 24 * HOUR_SEC
TRACK_METRICS == <<"views", "likes", "comments", "repost", "shared">>
MetricNames == {TRACK_METRICS[i] : i \in 1..Len(TRACK_METRICS)}

-----------------------------------------------------------------------------
(* Values *)

BadTs == [kind |-> "bad", local |-> 0, off |-> 0]
ZTs(l) == [kind |-> "Z", local |-> l, off |-> 0]
NaiveTs(l) == [kind |-> "naive", local |-> l, off |-> 0]
OffTs(l, o) == [kind |-> "offset", local |-> l, off |-> o]

NoneDt == [ok |-> FALSE, local |-> 0, off |-> 0]
Dt(l, o) == [ok |-> TRUE, local |-> l, off |-> o]
Instant(dt) == dt.local - dt.off

NoneVal == [isint |-> FALSE, v |-> 0]
IntVal(n) == [isint |-> TRUE, v |-> n]
NotInt(n) == [isint |-> FALSE, v |-> n]
\* JSON true / false: a Python bool, for which isinstance(value, int) is
\* true and which counts as 1 / 0 in arithmetic
BoolVal(b) == [isint |-> TRUE, v |-> IF b THEN 1 ELSE 0, bool |-> b]

\* A raw timeline entry: isdict = FALSE is a list element that is not an object.
NotADict == [isdict |-> FALSE, ts_utc |-> BadTs, m |-> [x \in MetricNames |-> NoneVal]]
RawPoint(ts, views) ==
    [isdict |-> TRUE, ts_utc |-> ts,
     m |-> [x \in MetricNames |-> IF x = "views" THEN views ELSE NoneVal]]

-----------------------------------------------------------------------------
(* ParserPost.py: timestamps *)

\* _parse_ts: None for an empty or unparsable string; a trailing Z becomes
\* +00:00; a naive reading is taken as UTC.
_parse_ts(value) ==
    CASE value.kind = "bad" -> NoneDt
      [] value.kind = "Z" -> Dt(value.local, 0)
      [] value.kind = "naive" -> Dt(value.local, 0)
      [] OTHER -> Dt(value.local, value.off)

\* datetime.isoformat(): the wall-clock reading with the datetime's own offset.
isoformat(dt) == OffTs(dt.local, dt.off)

\* datetime + timedelta(seconds = s)
AddSeconds(dt, s) == [dt EXCEPT !.local = @ + s]

\* minutes since midnight of the Moscow wall clock, as "%H:%M" prints them
HourMinuteMsk(dt) == ((Instant(dt) + MSK_OFFSET_HOURS * HOUR_SEC) % DAY_SEC) \div 60

_format_hour_range(start_ts, end_ts) == <<HourMinuteMsk(start_ts), HourMinuteMsk(end_ts)>>

-----------------------------------------------------------------------------
(* ParserPost.py: timeline normalisation *)

\* bucket[key] = point on an insertion-ordered dict kept as a sequence: an
\* existing key keeps its position and takes the new value.
RECURSIVE BucketPut(_, _)
BucketPut(bucket, point) ==
    IF bucket = <<>> THEN <<point>>
    ELSE IF Head(bucket).ts_utc = point.ts_utc
         THEN <<point>> \o Tail(bucket)
         ELSE <<Head(bucket)>> \o BucketPut(Tail(bucket), point)

\* the point _normalize_timeline builds from one entry
NormalPoint(entry) ==
    [isdict |-> TRUE,
     ts_utc |-> isoformat(_parse_ts(entry.ts_utc)),
     m |-> [x \in MetricNames |->
              IF entry.m[x].isint THEN entry.m[x] ELSE NoneVal]]

RECURSIVE FillBucket(_, _)
FillBucket(bucket, raw) ==
    IF raw = <<>> THEN bucket
    ELSE LET entry == Head(raw) IN
         IF ~entry.isdict \/ ~_parse_ts(entry.ts_utc).ok
         THEN FillBucket(bucket, Tail(raw))
         ELSE FillBucket(BucketPut(bucket, NormalPoint(entry)), Tail(raw))

SortKey(point) == Instant(_parse_ts(point.ts_utc))

\* sorted() is stable: a point goes after every point whose key is <= its own
RECURSIVE InsertSorted(_, _)
InsertSorted(sorted, point) ==
    IF sorted = <<>> THEN <<point>>
    ELSE IF SortKey(Head(sorted)) <= SortKey(point)
         THEN <<Head(sorted)>> \o InsertSorted(Tail(sorted), point)
         ELSE <<point>> \o sorted

RECURSIVE StableSort(_, _)
StableSort(done, todo) ==
    IF todo = <<>> THEN done
    ELSE StableSort(InsertSorted(done, Head(todo)), Tail(todo))

\* a variant that keeps every point: no bucket, only the sort
NormalizeNoDedup(raw_timeline) ==
    StableSort(<<>>, SelectSeq(
        [i \in 1..Len(raw_timeline) |->
            IF raw_timeline[i].isdict /\ _parse_ts(raw_timeline[i].ts_utc).ok
            THEN NormalPoint(raw_timeline[i]) ELSE NotADict],
        LAMBDA p : p.isdict))

_normalize_timeline(raw_timeline) ==
    StableSort(<<>>, FillBucket(<<>>, raw_timeline))

\* the timeline that _merge_tracking returns for two trackings' timelines:
\* each side goes through _normalize_tracking, then the concatenation is
\* normalised.
MergeTimeline(base_timeline, extra_timeline) ==
    _normalize_timeline(_normalize_timeline(base_timeline)
                        \o _normalize_timeline(extra_timeline))

-----------------------------------------------------------------------------
(* ParserPost.py: hourly bucketing *)

_metric_value(point, metric) ==
    IF point.isdict /\ point.m[metric].isint THEN point.m[metric] ELSE NoneVal

\* the loop stops at the first point that is unparsable or later than target_ts
RECURSIVE ValueScan(_, _, _, _)
ValueScan(timeline, target_ts, metric, value) ==
    IF timeline = <<>> THEN value
    ELSE LET point == Head(timeline)
             ts == _parse_ts(point.ts_utc)
         IN IF ~ts.ok \/ Instant(ts) > Instant(target_ts)
            THEN value
            ELSE LET current == _metric_value(point, metric) IN
                 ValueScan(Tail(timeline), target_ts, metric,
                           IF current.isint THEN current ELSE value)

\* a variant that stops at a point taken exactly at target_ts
RECURSIVE ValueScanBefore(_, _, _, _)
ValueScanBefore(timeline, target_ts, metric, value) ==
    IF timeline = <<>> THEN value
    ELSE LET point == Head(timeline)
             ts == _parse_ts(point.ts_utc)
         IN IF ~ts.ok \/ Instant(ts) >= Instant(target_ts)
            THEN value
            ELSE LET current == _metric_value(point, metric) IN
                 ValueScanBefore(Tail(timeline), target_ts, metric,
                                 IF current.isint THEN current ELSE value)

ValueAtTimeBefore(timeline, target_ts, metric) ==
    ValueScanBefore(timeline, target_ts, metric, NoneVal)

_value_at_time(timeline, target_ts, metric) ==
    ValueScan(timeline, target_ts, metric, NoneVal)

RECURSIVE HourlyRows(_, _, _, _, _)
HourlyRows(timeline, start_ts, metric, hour, prev_value) ==
    IF hour > TRACK_HOURS THEN <<>>
    ELSE LET end_ts == AddSeconds(start_ts, hour * HOUR_SEC)
             found == _value_at_time(timeline, end_ts, metric)
             value == IF found.isint THEN found.v ELSE prev_value
         IN <<[hour |-> hour,
               range |-> _format_hour_range(AddSeconds(end_ts, -HOUR_SEC), end_ts),
               delta |-> value - prev_value]>>
            \o HourlyRows(timeline, start_ts, metric, hour + 1, value)

\* a variant whose baseline is always zero
ComputeHourlyZeroBase(timeline, start_ts, metric) ==
    HourlyRows(timeline, start_ts, metric, 1, 0)

_compute_hourly_metric(timeline, start_ts, metric) ==
    LET found == _value_at_time(timeline, start_ts, metric)
        base == IF found.isint THEN found.v ELSE 0
    IN HourlyRows(timeline, start_ts, metric, 1, base)

-----------------------------------------------------------------------------
(* ParserPost.py: tracking windows *)

\* history_24h as stored; present = FALSE is a tracking without the key, and
\* has_completed_at says whether completed_at_utc is there.
NoHistory ==
    [present |-> FALSE, start_ts_utc |-> BadTs, ready_hours |-> 0,
     finalized |-> FALSE, updated_at_utc |-> BadTs,
     metrics |-> [x \in MetricNames |-> <<>>],
     has_completed_at |-> FALSE, completed_at_utc |-> BadTs]

\* A tracking object. started_at_utc = BadTs stands for a start that is
\* absent or does not parse; the timeline is a list.
Tracking(started, timeline, history) ==
    [started_at_utc |-> started, timeline |-> timeline, history_24h |-> history]
NoTracking == Tracking(BadTs, <<>>, NoHistory)

\* int((now_ts - started_dt).total_seconds() // 3600)
HoursBetween(started_dt, now_ts) ==
    (Instant(now_ts) - Instant(started_dt)) \div HOUR_SEC

\* all_rows[:ready_hours]
FirstRows(all_rows, ready_hours) ==
    SubSeq(all_rows, 1, IF ready_hours < Len(all_rows) THEN ready_hours ELSE Len(all_rows))

\* the history object built from the start, the clamped hours and now
HistoryOf(timeline, started_dt, ready_hours, now_ts) ==
    [present |-> TRUE,
     start_ts_utc |-> isoformat(started_dt),
     ready_hours |-> ready_hours,
     finalized |-> ready_hours >= TRACK_HOURS,
     updated_at_utc |-> isoformat(now_ts),
     metrics |-> [x \in MetricNames |->
                    FirstRows(_compute_hourly_metric(timeline, started_dt, x), ready_hours)],
     has_completed_at |-> ready_hours >= TRACK_HOURS,
     completed_at_utc |-> IF ready_hours >= TRACK_HOURS
                          THEN isoformat(AddSeconds(started_dt, TRACK_HOURS * HOUR_SEC))
                          ELSE BadTs]

\* a variant that keeps every computed row
UpdateHistoryAllRows(tracking, now_ts) ==
    LET started_dt == _parse_ts(tracking.started_at_utc)
        hours == HoursBetween(started_dt, now_ts)
        ready_hours == IF hours < 0 THEN 0 ELSE IF hours > TRACK_HOURS THEN TRACK_HOURS ELSE hours
        history == HistoryOf(tracking.timeline, started_dt, ready_hours, now_ts)
    IN IF ~started_dt.ok THEN tracking
       ELSE [tracking EXCEPT !.history_24h =
                [history EXCEPT !.metrics =
                    [x \in MetricNames |->
                        _compute_hourly_metric(tracking.timeline, started_dt, x)]]]

\* a variant without the upper clamp of the hours
UpdateHistoryNoClamp(tracking, now_ts) ==
    LET started_dt == _parse_ts(tracking.started_at_utc)
        hours == HoursBetween(started_dt, now_ts)
        ready_hours == IF hours < 0 THEN 0 ELSE hours
    IN IF ~started_dt.ok THEN tracking
       ELSE [tracking EXCEPT !.history_24h =
                HistoryOf(tracking.timeline, started_dt, ready_hours, now_ts)]

\* _update_history_24h: the tracking as it is when the start does not parse,
\* else the tracking with a history built afresh.
_update_history_24h(tracking, now_ts) ==
    LET started_dt == _parse_ts(tracking.started_at_utc)
        hours == HoursBetween(started_dt, now_ts)
        ready_hours == IF hours < 0 THEN 0 ELSE IF hours > TRACK_HOURS THEN TRACK_HOURS ELSE hours
    IN IF ~started_dt.ok THEN tracking
       ELSE [tracking EXCEPT !.history_24h =
                HistoryOf(tracking.timeline, started_dt, ready_hours, now_ts)]

\* One item of a posts batch, stats_by_url[url]: the worker's fetch time, if
\* the item carries one, and the metric read.
Snapshot(has_fetched_at, fetched_at, views) ==
    [present |-> TRUE, has_fetched_at |-> has_fetched_at,
     fetched_at_utc |-> fetched_at, views |-> views]
NoSnapshot ==
    [present |-> FALSE, has_fetched_at |-> FALSE, fetched_at_utc |-> BadTs,
     views |-> NoneVal]

\* One user document, as far as one post url goes: whether the url is in
\* "posts", and stats.posts[url] (the snapshot stored last and its tracking).
Document(subscribed, snapshot, tracking) ==
    [subscribed |-> subscribed, snapshot |-> snapshot, tracking |-> tracking]

\* the documents in the order _load_users lists them
Owners == <<"u1", "u2">>
OwnerSet == {Owners[i] : i \in 1..Len(Owners)}

\* _normalize_tracking: the start rewritten by isoformat() when it parses,
\* the timeline normalised, the history copied.
_normalize_tracking(raw_tracking) ==
    LET started_dt == _parse_ts(raw_tracking.started_at_utc) IN
    Tracking(IF started_dt.ok THEN isoformat(started_dt) ELSE BadTs,
             _normalize_timeline(raw_tracking.timeline),
             raw_tracking.history_24h)

\* _tracking_rank: (start or infinity, -finalized, -len(timeline))
_tracking_rank(tracking) ==
    LET started == _parse_ts(tracking.started_at_utc) IN
    [has_start |-> started.ok,
     start |-> IF started.ok THEN Instant(started) ELSE 0,
     finalized |-> IF tracking.history_24h.present /\ tracking.history_24h.finalized
                   THEN 1 ELSE 0,
     timeline_len |-> Len(tracking.timeline)]

\* the order of the rank tuples; a missing start is float("inf")
RankLess(a, b) ==
    LET startLess == IF a.has_start /\ b.has_start THEN a.start < b.start
                     ELSE a.has_start /\ ~b.has_start
        startSame == IF a.has_start /\ b.has_start THEN a.start = b.start
                     ELSE ~a.has_start /\ ~b.has_start
    IN \/ startLess
       \/ startSame /\ 0 - a.finalized < 0 - b.finalized
       \/ startSame /\ a.finalized = b.finalized /\ 0 - a.timeline_len < 0 - b.timeline_len

\* a variant that takes the later of the two starts
MergeTrackingLaterStart(base_tracking, extra_tracking) ==
    LET base == _normalize_tracking(base_tracking)
        extra == _normalize_tracking(extra_tracking)
        baseTs == _parse_ts(base.started_at_utc)
        extraTs == _parse_ts(extra.started_at_utc)
        started_dt == IF baseTs.ok /\ extraTs.ok
                      THEN (IF Instant(extraTs) > Instant(baseTs) THEN extraTs ELSE baseTs)
                      ELSE IF baseTs.ok THEN baseTs ELSE extraTs
        timeline == _normalize_timeline(base.timeline \o extra.timeline)
        best_hist ==
            IF RankLess(_tracking_rank(Tracking(BadTs, extra.timeline, extra.history_24h)),
                        _tracking_rank(Tracking(BadTs, base.timeline, base.history_24h)))
            THEN extra.history_24h ELSE base.history_24h
    IN Tracking(IF started_dt.ok THEN isoformat(started_dt) ELSE BadTs,
                timeline, best_hist)

\* _merge_tracking: the earlier start (the base's on a tie), the normalised
\* concatenation of the timelines, and the history that ranks first; the
\* rank is taken of a dict without started_at_utc.
_merge_tracking(base_tracking, extra_tracking) ==
    LET base == _normalize_tracking(base_tracking)
        extra == _normalize_tracking(extra_tracking)
        baseTs == _parse_ts(base.started_at_utc)
        extraTs == _parse_ts(extra.started_at_utc)
        started_dt == IF baseTs.ok /\ extraTs.ok
                      THEN (IF Instant(extraTs) < Instant(baseTs) THEN extraTs ELSE baseTs)
                      ELSE IF baseTs.ok THEN baseTs ELSE extraTs
        timeline == _normalize_timeline(base.timeline \o extra.timeline)
        best_hist ==
            IF RankLess(_tracking_rank(Tracking(BadTs, extra.timeline, extra.history_24h)),
                        _tracking_rank(Tracking(BadTs, base.timeline, base.history_24h)))
            THEN extra.history_24h ELSE base.history_24h
    IN Tracking(IF started_dt.ok THEN isoformat(started_dt) ELSE BadTs,
                timeline, best_hist)

\* _collect_global_post_tracking for the one url: the documents' trackings
\* merged in the order of the list, empty ones skipped
RECURSIVE CollectFrom(_, _, _)
CollectFrom(users, i, global) ==
    IF i > Len(Owners) THEN global
    ELSE LET tracking == _normalize_tracking(users[Owners[i]].tracking) IN
         CollectFrom(users, i + 1,
                     IF tracking = NoTracking THEN global
                     ELSE _merge_tracking(global, tracking))

_collect_global_post_tracking(users) == CollectFrom(users, 1, NoTracking)

\* _apply_tracking_horizon: the normalised timeline, cut at start + 24 h when
\* the start parses
\* a variant that normalizes and cuts nothing
ApplyHorizonNoCut(tracking) ==
    [tracking EXCEPT !.timeline = _normalize_timeline(tracking.timeline)]

_apply_tracking_horizon(tracking) ==
    LET started_dt == _parse_ts(tracking.started_at_utc)
        timeline == _normalize_timeline(tracking.timeline)
        horizon == AddSeconds(started_dt, TRACK_HOURS * HOUR_SEC)
    IN IF ~started_dt.ok THEN [tracking EXCEPT !.timeline = timeline]
       ELSE [tracking EXCEPT !.timeline =
                SelectSeq(timeline,
                          LAMBDA point : /\ _parse_ts(point.ts_utc).ok
                                         /\ Instant(_parse_ts(point.ts_utc)) <= Instant(horizon))]

\* a variant that stamps the new point with the time of the application
TrackOneStampNow(existing_tracking, global, snapshot, now_ts) ==
    LET merged == _merge_tracking(existing_tracking, global)
        now_iso == isoformat(now_ts)
        fetched == IF snapshot.has_fetched_at THEN snapshot.fetched_at_utc ELSE now_iso
        candidate == IF merged.started_at_utc # BadTs THEN merged.started_at_utc ELSE fetched
        started_iso == IF _parse_ts(candidate).ok THEN candidate ELSE now_iso
        point == RawPoint(now_iso, snapshot.views)
        timeline == _normalize_timeline(_normalize_timeline(merged.timeline) \o <<point>>)
    IN _update_history_24h(
           _apply_tracking_horizon(Tracking(started_iso, timeline, merged.history_24h)),
           now_ts)

\* the body of _update_users_posts_stats for one subscribed post of one
\* document: the tracking stored with the snapshot
TrackOne(existing_tracking, global, snapshot, now_ts) ==
    LET merged == _merge_tracking(existing_tracking, global)
        now_iso == isoformat(now_ts)
        fetched == IF snapshot.has_fetched_at THEN snapshot.fetched_at_utc ELSE now_iso
        candidate == IF merged.started_at_utc # BadTs THEN merged.started_at_utc ELSE fetched
        started_iso == IF _parse_ts(candidate).ok THEN candidate ELSE now_iso
        point == RawPoint(fetched, snapshot.views)
        timeline == _normalize_timeline(_normalize_timeline(merged.timeline) \o <<point>>)
    IN _update_history_24h(
           _apply_tracking_horizon(Tracking(started_iso, timeline, merged.history_24h)),
           now_ts)

\* _update_users_posts_stats for a batch that carries the one url: the
\* documents are taken in order, each subscribed one gets the snapshot and
\* its tracking, and the tracking is merged into global_tracking for the
\* documents that follow.
RECURSIVE UpdateFrom(_, _, _, _, _)
UpdateFrom(users, i, global, snapshot, now_ts) ==
    IF i > Len(Owners) THEN users
    ELSE LET o == Owners[i] IN
         IF ~users[o].subscribed
         THEN UpdateFrom(users, i + 1, global, snapshot, now_ts)
         ELSE LET tracking == TrackOne(users[o].tracking, global, snapshot, now_ts) IN
              UpdateFrom([users EXCEPT ![o] = Document(TRUE, snapshot, tracking)],
                         i + 1, _merge_tracking(global, tracking), snapshot, now_ts)

_update_users_posts_stats(users, snapshot, now_ts) ==
    UpdateFrom(users, 1, _collect_global_post_tracking(users), snapshot, now_ts)

-----------------------------------------------------------------------------
(* parser_events.py: the intake queue *)

\* PARSER_EVENT_QUEUE_SIZE: the configured capacity (200 when unset)
_QUEUE_SIZE == 3

\* An event type as received: name is the text without surrounding blanks,
\* padded says whether blanks surround it.
EvType(name, padded) == [name |-> name, padded |-> padded]
\* One item of a stats_by_url object: key is the key without surrounding
\* blanks ("" for a blank key), isobj whether the value is an object.
StatsItem(key, isobj) == [key |-> key, isobj |-> isobj]
Event(isdict, type, statsIsDict, items) ==
    [isdict |-> isdict, type |-> type,
     stats_by_url |-> [isdict |-> statsIsDict, items |-> items]]

\* str(event.get("type", "")).strip()
StripType(type) == type.name

\* _normalize_stats_map: the keys kept, those that are not blank and map to
\* an object; nothing for a value that is not an object.
_normalize_stats_map(raw) ==
    IF ~raw.isdict THEN {}
    ELSE {i.key : i \in {j \in raw.items : j.key # "" /\ j.isobj}}

\* asyncio.Queue.full(): a queue of maxsize <= 0 is never full
QueueFull(q, maxsize) == IF maxsize <= 0 THEN FALSE ELSE Len(q) >= maxsize

Result(ok, reason) == [ok |-> ok, reason |-> reason]

\* a variant that puts without looking at the capacity
EnqueueUnbounded(q, event) ==
    IF ~event.isdict THEN <<q, Result(FALSE, "invalid_payload")>>
    ELSE IF StripType(event.type) \notin {"accounts_stats_batch", "posts_stats_batch"}
    THEN <<q, Result(FALSE, "invalid_type")>>
    ELSE IF _normalize_stats_map(event.stats_by_url) = {}
    THEN <<q, Result(FALSE, "empty_stats")>>
    ELSE <<Append(q, event), Result(TRUE, "queued")>>

\* a variant that leaves the stats check out
EnqueueNoStatsCheck(q, event) ==
    IF ~event.isdict THEN <<q, Result(FALSE, "invalid_payload")>>
    ELSE IF StripType(event.type) \notin {"accounts_stats_batch", "posts_stats_batch"}
    THEN <<q, Result(FALSE, "invalid_type")>>
    ELSE IF QueueFull(q, _QUEUE_SIZE)
    THEN <<q, Result(FALSE, "queue_full")>>
    ELSE <<Append(q, event), Result(TRUE, "queued")>>

\* a variant that lets the put through when the queue is exactly full
EnqueueOffByOne(q, event) ==
    IF ~event.isdict THEN <<q, Result(FALSE, "invalid_payload")>>
    ELSE IF StripType(event.type) \notin {"accounts_stats_batch", "posts_stats_batch"}
    THEN <<q, Result(FALSE, "invalid_type")>>
    ELSE IF _normalize_stats_map(event.stats_by_url) = {}
    THEN <<q, Result(FALSE, "empty_stats")>>
    ELSE IF QueueFull(q, _QUEUE_SIZE + 1)
    THEN <<q, Result(FALSE, "queue_full")>>
    ELSE <<Append(q, event), Result(TRUE, "queued")>>

\* a variant that puts the event at the head of the queue
EnqueueAtFront(q, event) ==
    IF ~event.isdict THEN <<q, Result(FALSE, "invalid_payload")>>
    ELSE IF StripType(event.type) \notin {"accounts_stats_batch", "posts_stats_batch"}
    THEN <<q, Result(FALSE, "invalid_type")>>
    ELSE IF _normalize_stats_map(event.stats_by_url) = {}
    THEN <<q, Result(FALSE, "empty_stats")>>
    ELSE IF QueueFull(q, _QUEUE_SIZE)
    THEN <<q, Result(FALSE, "queue_full")>>
    ELSE <<<<event>> \o q, Result(TRUE, "queued")>>

\* a variant that answers queued without putting the event
EnqueueDrops(q, event) ==
    IF ~event.isdict THEN <<q, Result(FALSE, "invalid_payload")>>
    ELSE IF StripType(event.type) \notin {"accounts_stats_batch", "posts_stats_batch"}
    THEN <<q, Result(FALSE, "invalid_type")>>
    ELSE IF _normalize_stats_map(event.stats_by_url) = {}
    THEN <<q, Result(FALSE, "empty_stats")>>
    ELSE IF QueueFull(q, _QUEUE_SIZE)
    THEN <<q, Result(FALSE, "queue_full")>>
    ELSE <<q, Result(TRUE, "queued")>>

\* enqueue_parser_event: <<the queue afterwards, the (ok, reason) returned>>
enqueue_parser_event(q, event) ==
    IF ~event.isdict THEN <<q, Result(FALSE, "invalid_payload")>>
    ELSE IF StripType(event.type) \notin {"accounts_stats_batch", "posts_stats_batch"}
    THEN <<q, Result(FALSE, "invalid_type")>>
    ELSE IF _normalize_stats_map(event.stats_by_url) = {}
    THEN <<q, Result(FALSE, "empty_stats")>>
    ELSE IF QueueFull(q, _QUEUE_SIZE)
    THEN <<q, Result(FALSE, "queue_full")>>
    ELSE <<Append(q, event), Result(TRUE, "queued")>>

\* The submissions tried
ObjStats == {StatsItem("u1", TRUE)}
Events ==
    { Event(TRUE, EvType("accounts_stats_batch", FALSE), TRUE, ObjStats),
      Event(TRUE, EvType("posts_stats_batch", FALSE), TRUE, ObjStats),
      Event(TRUE, EvType("posts_stats_batch", TRUE), TRUE,
            {StatsItem("u1", TRUE), StatsItem("", TRUE), StatsItem("u2", FALSE)}),
      Event(TRUE, EvType("likes_batch", FALSE), TRUE, ObjStats),
      Event(TRUE, EvType("", FALSE), TRUE, {}),
      Event(TRUE, EvType("accounts_stats_batch", FALSE), TRUE, {}),
      Event(TRUE, EvType("posts_stats_batch", FALSE), TRUE, {StatsItem("", TRUE)}),
      Event(TRUE, EvType("posts_stats_batch", FALSE), TRUE, {StatsItem("u1", FALSE)}),
      Event(TRUE, EvType("accounts_stats_batch", FALSE), FALSE, {}),
      Event(FALSE, EvType("", FALSE), FALSE, {}) }

ApplyErrors == {"ValueError", "OSError"}

QueueIdle ==
    /\ eventQueue = <<>>
    /\ subResult = Result(FALSE, "none")
    /\ workerTask = "none"
    /\ workerPc = "check"
    /\ stopEvent = FALSE
    /\ inflight = <<>>
    /\ lastOk = FALSE
    /\ lastError = ""
    /\ strayWorkers = 0
    /\ startResult = "none"

\* POST /internal/parser-events reaching enqueue_parser_event
Submit(event) ==
    /\ eventQueue' = enqueue_parser_event(eventQueue, event)[1]
    /\ subResult' = enqueue_parser_event(eventQueue, event)[2]
    /\ UNCHANGED <<notQueueVars, workerTask, workerPc, stopEvent, inflight, lastOk, lastError,
                   strayWorkers, startResult>>

\* the lifespan coroutine is the only caller of start and stop, and it awaits
\* each call: no call begins while a stop is waiting for the task
StopPending == stopEvent /\ workerTask # "none"

\* a variant without the check for a live task
StartWorkerUnguarded(task, strays) ==
    [task |-> "running",
     strays |-> IF task = "running" THEN strays + 1 ELSE strays,
     created |-> TRUE]

\* start_parser_event_worker: nothing when the task is alive, else a fresh
\* stop event and a new task. The result names the task _WORKER_TASK refers
\* to afterwards, the live tasks it no longer refers to, and whether a task
\* was created.
start_parser_event_worker(task, strays) ==
    IF task = "running"
    THEN [task |-> task, strays |-> strays, created |-> FALSE]
    ELSE [task |-> "running", strays |-> strays, created |-> TRUE]

StartWorker ==
    /\ ~StopPending
    /\ LET started == start_parser_event_worker(workerTask, strayWorkers) IN
       /\ workerTask' = started.task
       /\ strayWorkers' = started.strays
       /\ stopEvent' = IF started.created THEN FALSE ELSE stopEvent
       /\ workerPc' = IF started.created THEN "check" ELSE workerPc
       /\ startResult' = IF started.created THEN "created" ELSE "kept"
    /\ UNCHANGED <<notQueueVars, eventQueue, subResult, inflight, lastOk, lastError>>

\* stop_parser_event_worker, first half: set the stop event
StopSignal ==
    /\ workerTask # "none"
    /\ ~stopEvent
    /\ stopEvent' = TRUE
    /\ UNCHANGED <<notQueueVars, eventQueue, subResult, workerTask, workerPc, inflight,
                   lastOk, lastError, strayWorkers, startResult>>

\* a variant of the await that returns at once
TaskAwaitedAtOnce(task) == task # "none"

\* await _WORKER_TASK returns when the task has finished
TaskAwaited(task) == task = "done"

\* stop_parser_event_worker, second half: the awaited task has finished
StopJoin ==
    /\ StopPending
    /\ TaskAwaited(workerTask)
    /\ workerTask' = "none"
    /\ UNCHANGED <<notQueueVars, eventQueue, subResult, workerPc, stopEvent, inflight,
                   lastOk, lastError, strayWorkers, startResult>>

\* a variant of the loop condition that never looks at the stop event
LoopIgnoresStop(stop) == TRUE

\* while not _STOP_EVENT.is_set()
LoopGoesOn(stop) == ~stop

\* _worker_loop: the while condition
WorkerCheck ==
    /\ workerTask = "running"
    /\ workerPc = "check"
    /\ IF ~LoopGoesOn(stopEvent)
       THEN workerTask' = "done" /\ workerPc' = "check"
       ELSE workerTask' = workerTask /\ workerPc' = "get"
    /\ UNCHANGED <<notQueueVars, eventQueue, subResult, stopEvent, inflight, lastOk, lastError,
                   strayWorkers, startResult>>

\* _worker_loop: wait_for(queue.get(), 1.0) returns an event
WorkerGet ==
    /\ workerTask = "running"
    /\ workerPc = "get"
    /\ eventQueue # <<>>
    /\ inflight' = <<Head(eventQueue)>>
    /\ eventQueue' = Tail(eventQueue)
    /\ workerPc' = "apply"
    /\ UNCHANGED <<notQueueVars, subResult, workerTask, stopEvent, lastOk, lastError,
                   strayWorkers, startResult>>

\* _worker_loop: the get timed out on an empty queue
WorkerTimeout ==
    /\ workerTask = "running"
    /\ workerPc = "get"
    /\ eventQueue = <<>>
    /\ workerPc' = "check"
    /\ UNCHANGED <<notQueueVars, eventQueue, subResult, workerTask, stopEvent, inflight,
                   lastOk, lastError, strayWorkers, startResult>>

\* _worker_loop: the apply returned
ApplyOk ==
    /\ workerTask = "running"
    /\ workerPc = "apply"
    /\ lastOk' = TRUE
    /\ lastError' = ""
    /\ inflight' = <<>>
    /\ workerPc' = "check"
    /\ UNCHANGED <<notQueueVars, eventQueue, subResult, workerTask, stopEvent, strayWorkers,
                   startResult>>

\* a variant in which the exception leaves the loop and ends the task
ApplyErrorEscapes(task) == "done"

\* except Exception: the error is caught inside the loop, the task lives on
ApplyErrorCaught(task) == task

\* _worker_loop: the apply raised
ApplyFail(error) ==
    /\ workerTask = "running"
    /\ workerPc = "apply"
    /\ workerTask' = ApplyErrorCaught(workerTask)
    /\ lastError' = error
    /\ inflight' = <<>>
    /\ workerPc' = "check"
    /\ UNCHANGED <<notQueueVars, eventQueue, subResult, stopEvent, lastOk, strayWorkers,
                   startResult>>

NextQueue ==
    \/ \E event \in Events : Submit(event)
    \/ StartWorker
    \/ StopSignal
    \/ StopJoin
    \/ WorkerCheck
    \/ WorkerGet
    \/ WorkerTimeout
    \/ ApplyOk
    \/ \E error \in ApplyErrors : ApplyFail(error)

-----------------------------------------------------------------------------
(* parsers_bridge.py: the supervisor *)

RESTART_INTERVAL_SEC == 60 * 60
RESTART_PAUSE_SEC == 5
HEALTH_TIMEOUT_SEC == 5 * 60
HEALTH_START_GRACE_SEC == 90
WATCHDOG_SLEEP_SEC == 5
RESTART_SLEEP_SEC == 1

Kinds == {"posts", "accounts"}

\* None, for a time
NoTime == 0 - 1
\* "if started_at": neither None nor 0
Truthy(t) == t # NoTime /\ t # 0

HealthRecord(present, req, resp) ==
    [present |-> present, last_request_ts_utc |-> req, last_response_ts_utc |-> resp]
NoHealth == HealthRecord(FALSE, NoTime, NoTime)

\* The supervisor's globals and surroundings as one record, so that a call is
\* a function from record to record.
SupState ==
    [process |-> process, startedAt |-> startedAt,
     expectedRunning |-> expectedRunning, logHandle |-> logHandle,
     watchdogStarted |-> watchdogStarted, wdNow |-> wdNow,
     wdRestartAt |-> wdRestartAt, wdSpared |-> wdSpared,
     orphans |-> orphans, now |-> now]

SetSup(s) ==
    /\ process' = s.process
    /\ startedAt' = s.startedAt
    /\ expectedRunning' = s.expectedRunning
    /\ logHandle' = s.logHandle
    /\ watchdogStarted' = s.watchdogStarted
    /\ wdNow' = s.wdNow
    /\ wdRestartAt' = s.wdRestartAt
    /\ wdSpared' = s.wdSpared
    /\ orphans' = s.orphans
    /\ now' = s.now

\* What a step reads from the file system: whether the kind's script is there
\* (Path.exists), whether a user document lists work for the kind
\* (_has_posts_tasks / _has_accounts_tasks) and the heartbeat record
\* (_read_health).
Reads(exists, tasks, record) ==
    [scriptExists |-> exists, hasTasks |-> tasks, health |-> record]

\* One step of a caller: op on kind k (d is the length of a sleep)
Op(op, k, d) == [op |-> op, k |-> k, d |-> d]
\* What a step gives: the state afterwards and the steps it puts in front
Done(s, push) == [s |-> s, push |-> push]

_is_running(s, k) == s.process[k] = "running"

\* the live processes whose command line names the kind's script
LiveProcesses(s, k) ==
    (IF s.process[k] = "running" THEN 1 ELSE 0) + s.orphans[k]

_system_has_process(s, k) == LiveProcesses(s, k) > 0

\* posts_parser_running / accounts_parser_running
parser_running(s, k) == _is_running(s, k) \/ _system_has_process(s, k)

\* the record alone says stale: the verdict on a worker with no start time
StaleByContent(record, t) ==
    \/ ~record.present
    \/ record.last_request_ts_utc = NoTime
    \/ t - record.last_request_ts_utc > HEALTH_TIMEOUT_SEC
    \/ record.last_response_ts_utc = NoTime
    \/ t - record.last_response_ts_utc > HEALTH_TIMEOUT_SEC

\* a variant with no startup grace period
HealthStaleNoGrace(record, started_at, t) ==
    IF ~record.present THEN <<TRUE, "health_missing">>
    ELSE IF record.last_request_ts_utc = NoTime THEN <<TRUE, "no_request">>
    ELSE IF t - record.last_request_ts_utc > HEALTH_TIMEOUT_SEC
    THEN <<TRUE, "request_timeout">>
    ELSE IF record.last_response_ts_utc = NoTime THEN <<TRUE, "no_response">>
    ELSE IF t - record.last_response_ts_utc > HEALTH_TIMEOUT_SEC
    THEN <<TRUE, "response_timeout">>
    ELSE <<FALSE, "">>

\* _health_stale on the record _read_health returns, at time t
_health_stale(record, started_at, t) ==
    IF Truthy(started_at) /\ t - started_at < HEALTH_START_GRACE_SEC
    THEN <<FALSE, "">>
    ELSE IF ~record.present THEN <<TRUE, "health_missing">>
    ELSE IF record.last_request_ts_utc = NoTime THEN <<TRUE, "no_request">>
    ELSE IF t - record.last_request_ts_utc > HEALTH_TIMEOUT_SEC
    THEN <<TRUE, "request_timeout">>
    ELSE IF record.last_response_ts_utc = NoTime THEN <<TRUE, "no_response">>
    ELSE IF t - record.last_response_ts_utc > HEALTH_TIMEOUT_SEC
    THEN <<TRUE, "response_timeout">>
    ELSE <<FALSE, "">>

\* The heartbeat file as found on disk: kind "unreadable" is a missing file
\* or broken JSON, "notdict" JSON that is not an object, "empty" the object
\* {}, "dict" an object with at least one key; the two timestamps are
\* timestamp strings (BadTs when the key is absent or its text unparsable).
HealthFile(kind, req, resp) ==
    [kind |-> kind, last_request_ts_utc |-> req, last_response_ts_utc |-> resp]
NoHealthFile == HealthFile("unreadable", BadTs, BadTs)

\* _parse_iso_to_epoch: None for an empty or unparsable string; a trailing Z
\* becomes +00:00; a naive reading is taken as UTC; else dt.timestamp()
_parse_iso_to_epoch(value) ==
    CASE value.kind = "bad" -> NoTime
      [] value.kind = "Z" -> value.local
      [] value.kind = "naive" -> value.local
      [] OTHER -> value.local - value.off

\* _read_health: the object read, {} for anything else
_read_health(file) ==
    IF file.kind = "dict" THEN file ELSE HealthFile("empty", BadTs, BadTs)

\* a variant that counts an age of exactly the timeout as stale
HealthStaleAtTimeout(file, started_at, t) ==
    LET health == _read_health(file)
        req_epoch == _parse_iso_to_epoch(health.last_request_ts_utc)
        resp_epoch == _parse_iso_to_epoch(health.last_response_ts_utc)
    IN IF Truthy(started_at) /\ t - started_at < HEALTH_START_GRACE_SEC
       THEN <<FALSE, "">>
       ELSE IF health.kind = "empty" THEN <<TRUE, "health_missing">>
       ELSE IF req_epoch = NoTime THEN <<TRUE, "no_request">>
       ELSE IF t - req_epoch >= HEALTH_TIMEOUT_SEC THEN <<TRUE, "request_timeout">>
       ELSE IF resp_epoch = NoTime THEN <<TRUE, "no_response">>
       ELSE IF t - resp_epoch >= HEALTH_TIMEOUT_SEC THEN <<TRUE, "response_timeout">>
       ELSE <<FALSE, "">>

\* _health_stale(path, started_at) at time t, from the file at path: the file
\* is read and its two timestamps parsed, then classified
HealthStaleOfFile(file, started_at, t) ==
    LET health == _read_health(file) IN
    _health_stale(HealthRecord(health.kind # "empty",
                               _parse_iso_to_epoch(health.last_request_ts_utc),
                               _parse_iso_to_epoch(health.last_response_ts_utc)),
                  started_at, t)

\* a variant that looks at the owned handle only
StartCheckHandleOnly(s, k, exists) ==
    LET s1 == [s EXCEPT !.expectedRunning[k] = TRUE] IN
    IF _is_running(s1, k)
    THEN Done([s1 EXCEPT !.startedAt[k] = IF @ = NoTime THEN s.now ELSE @,
                         !.watchdogStarted = TRUE], <<>>)
    ELSE IF ~exists THEN Done(s1, <<>>)
    ELSE Done(s1, <<Op("start_spawn", k, 0)>>)

\* a variant that spawns whatever is alive
StartCheckAlwaysSpawn(s, k, exists) ==
    LET s1 == [s EXCEPT !.expectedRunning[k] = TRUE] IN
    IF ~exists THEN Done(s1, <<>>)
    ELSE Done(s1, <<Op("start_spawn", k, 0)>>)

\* start_posts_parser / start_accounts_parser up to the decision to spawn
StartCheck(s, k, exists) ==
    LET s1 == [s EXCEPT !.expectedRunning[k] = TRUE] IN
    IF _is_running(s1, k) \/ _system_has_process(s1, k)
    THEN Done([s1 EXCEPT !.startedAt[k] = IF @ = NoTime THEN s.now ELSE @,
                         !.watchdogStarted = TRUE], <<>>)
    ELSE IF ~exists THEN Done(s1, <<>>)
    ELSE Done(s1, <<Op("start_spawn", k, 0)>>)

\* start_posts_parser / start_accounts_parser from the log handle on: Popen
\* replaces the handle, and a process the old handle held lives on unheld
StartSpawn(s, k) ==
    Done([s EXCEPT !.logHandle[k] = TRUE,
                   !.orphans[k] = IF s.process[k] = "running" THEN @ + 1 ELSE @,
                   !.process[k] = "running",
                   !.startedAt[k] = s.now,
                   !.watchdogStarted = TRUE], <<>>)

\* stop_posts_parser / stop_accounts_parser up to the end of _terminate_process
StopTerminate(s, k) ==
    LET s1 == [s EXCEPT !.expectedRunning[k] = FALSE] IN
    IF _is_running(s1, k)
    THEN Done([s1 EXCEPT !.process[k] = "none", !.startedAt[k] = NoTime], <<>>)
    ELSE Done(s1, <<>>)

\* stop_posts_parser / stop_accounts_parser from the pid sweep on: every
\* process _find_pids_for_script lists is killed, the handle's too
StopSweep(s, k) ==
    Done([s EXCEPT !.orphans[k] = 0,
                   !.process[k] = IF @ = "running" THEN "exited" ELSE @,
                   !.logHandle[k] = FALSE], <<>>)

\* time.sleep(d)
Sleep(s, d) == Done([s EXCEPT !.now = @ + d], <<>>)

StopOps(k) == <<Op("stop_terminate", k, 0), Op("stop_sweep", k, 0)>>
StartOps(k) == <<Op("start_check", k, 0)>>
\* restart_posts_parser / restart_accounts_parser
RestartOps(k) == StopOps(k) \o <<Op("sleep", k, RESTART_SLEEP_SEC)>> \o StartOps(k)

\* control_parsers_action
control_parsers_action(action) ==
    CASE action = "start_all" -> StartOps("accounts") \o StartOps("posts")
      [] action = "stop_all" -> StopOps("accounts") \o StopOps("posts")
      [] action = "restart_all" -> RestartOps("accounts") \o RestartOps("posts")
      [] action = "start_posts" -> StartOps("posts")
      [] action = "stop_posts" -> StopOps("posts")
      [] action = "restart_posts" -> RestartOps("posts")
      [] action = "start_accounts" -> StartOps("accounts")
      [] action = "stop_accounts" -> StopOps("accounts")
      [] action = "restart_accounts" -> RestartOps("accounts")
      [] OTHER -> <<>>

Actions == {"start_all", "stop_all", "restart_all", "start_posts", "stop_posts",
            "restart_posts", "start_accounts", "stop_accounts",
            "restart_accounts"}

\* _watchdog_loop: now = time.time(), then a handle whose process has exited
\* is dropped, for both kinds
WdTop(s) ==
    Done([s EXCEPT
            !.wdNow = s.now,
            !.process = [k \in Kinds |-> IF s.process[k] = "exited"
                                         THEN "none" ELSE s.process[k]],
            !.startedAt = [k \in Kinds |-> IF s.process[k] = "exited"
                                           THEN NoTime ELSE s.startedAt[k]]],
         <<>>)

\* _watchdog_loop: the rotation of a kind whose handle is old enough
WdRotate(s, k) ==
    IF /\ _is_running(s, k)
       /\ Truthy(s.startedAt[k])
       /\ s.wdNow - s.startedAt[k] >= RESTART_INTERVAL_SEC
    THEN Done([s EXCEPT !.process[k] = "none",
                        !.startedAt[k] = NoTime,
                        !.wdRestartAt[k] = s.now + RESTART_PAUSE_SEC],
              <<Op("sleep", k, RESTART_PAUSE_SEC)>> \o StartOps(k))
    ELSE Done(s, <<>>)

\* a variant that leaves a kind that is down alone
WdEnsureNoStart(s, k, tasks, record) ==
    IF s.expectedRunning[k] /\ tasks /\ parser_running(s, k)
          /\ _health_stale(record, s.startedAt[k], s.now)[1]
    THEN Done([s EXCEPT !.wdRestartAt[k] = s.now + RESTART_SLEEP_SEC],
              control_parsers_action(
                  IF k = "posts" THEN "restart_posts" ELSE "restart_accounts"))
    ELSE Done(s, <<>>)

\* _watchdog_loop: a kind that is expected and has tasks is restarted when
\* stale and started when down
WdEnsure(s, k, tasks, record) ==
    IF s.expectedRunning[k] /\ tasks
    THEN IF parser_running(s, k)
         THEN IF _health_stale(record, s.startedAt[k], s.now)[1]
              THEN Done([s EXCEPT !.wdRestartAt[k] = s.now + RESTART_SLEEP_SEC],
                        control_parsers_action(
                            IF k = "posts" THEN "restart_posts"
                            ELSE "restart_accounts"))
              ELSE Done([s EXCEPT !.wdSpared =
                            IF StaleByContent(record, s.now)
                            THEN @ \cup {k} ELSE @], <<>>)
         ELSE Done(s, StartOps(k))
    ELSE Done(s, <<>>)

\* one iteration of _watchdog_loop
WatchdogIteration ==
    <<Op("wd_top", "", 0),
      Op("wd_rotate", "posts", 0), Op("wd_rotate", "accounts", 0),
      Op("wd_ensure", "posts", 0), Op("wd_ensure", "accounts", 0),
      Op("wd_sleep", "", WATCHDOG_SLEEP_SEC)>>

\* step o from state s, reading r from the file system
Exec(s, o, r) ==
    CASE o.op = "start_check" -> StartCheck(s, o.k, r.scriptExists)
      [] o.op = "start_spawn" -> StartSpawn(s, o.k)
      [] o.op = "stop_terminate" -> StopTerminate(s, o.k)
      [] o.op = "stop_sweep" -> StopSweep(s, o.k)
      [] o.op = "sleep" -> Sleep(s, o.d)
      [] o.op = "wd_top" -> WdTop(s)
      [] o.op = "wd_rotate" -> WdRotate(s, o.k)
      [] o.op = "wd_ensure" -> WdEnsure(s, o.k, r.hasTasks, r.health)

\* A whole call run to its end with no other thread in between: the steps
\* todo taken one after the other from s; exists[k] says whether the script
\* of kind k is there when the call looks.
RECURSIVE RunOps(_, _, _)
RunOps(s, todo, exists) ==
    IF todo = <<>> THEN s
    ELSE LET done == Exec(s, Head(todo), Reads(exists[Head(todo).k], TRUE, NoHealth)) IN
         RunOps(done.s, done.push \o Tail(todo), exists)

\* Bounds of the runs explored
MaxTicks == 3
MaxCalls == 2
MaxConcTicks == 1
MaxConcCalls == 2
MaxOrphans == 1
StartTime == 1000

\* time.sleep returns no sooner than asked: the watchdog's sleep between two
\* iterations lasts one of these
WatchdogSleeps ==
    {WATCHDOG_SLEEP_SEC, HEALTH_TIMEOUT_SEC + 1, RESTART_INTERVAL_SEC}

\* the heartbeat records read at time t: none, one without timestamps, one
\* without a response, and ones whose request or response is fresh, at the
\* timeout, or past it
HealthReads(t) ==
    {NoHealth, HealthRecord(TRUE, NoTime, NoTime), HealthRecord(TRUE, t, NoTime)}
    \cup {HealthRecord(TRUE, t - a, t - b) :
            a, b \in {0, HEALTH_TIMEOUT_SEC, HEALTH_TIMEOUT_SEC + 1}}

\* what the step o may read
ReadsFor(o, t) ==
    CASE o.op = "start_check" ->
            {Reads(exists, TRUE, NoHealth) : exists \in BOOLEAN}
      [] o.op = "wd_ensure" ->
            {Reads(TRUE, tasks, record) :
                tasks \in BOOLEAN, record \in HealthReads(t)}
      [] OTHER -> {Reads(TRUE, TRUE, NoHealth)}

\* the iterations and calls a run explores, alone and interleaved
TickBudget == IF serial THEN MaxTicks ELSE MaxConcTicks
CallBudget == IF serial THEN MaxCalls ELSE MaxConcCalls

WdIdle == IF wdTodo = <<>> THEN TRUE ELSE Head(wdTodo).op = "wd_sleep"

SupIdle ==
    /\ process = [k \in Kinds |-> "none"]
    /\ startedAt = [k \in Kinds |-> NoTime]
    /\ expectedRunning = [k \in Kinds |-> FALSE]
    /\ logHandle = [k \in Kinds |-> FALSE]
    /\ watchdogStarted = FALSE
    /\ wdNow = NoTime
    /\ wdRestartAt = [k \in Kinds |-> NoTime]
    /\ wdSpared = {}
    /\ orphans = [k \in Kinds |-> 0]
    /\ now = StartTime
    /\ wdTodo = <<>>
    /\ webTodo = <<>>
    /\ serial = TRUE
    /\ ticks = 0
    /\ calls = 0

\* the state after import; a worker of a previous run may still be alive
SupStart(mode) ==
    /\ process = [k \in Kinds |-> "none"]
    /\ startedAt = [k \in Kinds |-> NoTime]
    /\ expectedRunning = [k \in Kinds |-> FALSE]
    /\ logHandle = [k \in Kinds |-> FALSE]
    /\ watchdogStarted = FALSE
    /\ wdNow = NoTime
    /\ wdRestartAt = [k \in Kinds |-> NoTime]
    /\ wdSpared = {}
    /\ orphans \in [Kinds -> 0..MaxOrphans]
    /\ now = StartTime
    /\ wdTodo = <<>>
    /\ webTodo = <<>>
    /\ serial = mode
    /\ ticks = 0
    /\ calls = 0

\* POST /api/threads/parsers/control: api_threads_parsers_control calls
\* control_parsers_action on the request thread
WebCall(action) ==
    /\ webTodo = <<>>
    /\ calls < CallBudget
    /\ serial => WdIdle
    /\ webTodo' = control_parsers_action(action)
    /\ calls' = calls + 1
    /\ UNCHANGED <<process, startedAt, expectedRunning, logHandle,
                   watchdogStarted, wdNow, wdRestartAt, wdSpared, orphans, now,
                   wdTodo, serial, ticks, notSupVars>>

\* the request thread's next step
WebStep(r) ==
    /\ webTodo # <<>>
    /\ r \in ReadsFor(Head(webTodo), now)
    /\ SetSup(Exec(SupState, Head(webTodo), r).s)
    /\ webTodo' = Exec(SupState, Head(webTodo), r).push \o Tail(webTodo)
    /\ UNCHANGED <<wdTodo, serial, ticks, calls, notSupVars>>

\* _ensure_watchdog has started the thread: _watchdog_loop begins
WatchdogTick ==
    /\ watchdogStarted
    /\ wdTodo = <<>>
    /\ ticks = 0
    /\ serial => webTodo = <<>>
    /\ wdTodo' = WatchdogIteration
    /\ ticks' = 1
    /\ UNCHANGED <<process, startedAt, expectedRunning, logHandle,
                   watchdogStarted, wdNow, wdRestartAt, wdSpared, orphans, now,
                   webTodo, serial, calls, notSupVars>>

\* the watchdog thread's next step, its closing sleep excepted
WatchdogStep(r) ==
    /\ wdTodo # <<>>
    /\ Head(wdTodo).op # "wd_sleep"
    /\ serial => webTodo = <<>>
    /\ r \in ReadsFor(Head(wdTodo), now)
    /\ SetSup(Exec(SupState, Head(wdTodo), r).s)
    /\ wdTodo' = Exec(SupState, Head(wdTodo), r).push \o Tail(wdTodo)
    /\ UNCHANGED <<webTodo, serial, ticks, calls, notSupVars>>

\* _watchdog_loop: time.sleep(5) at the end of the iteration, and the loop
\* goes round; the iteration's own `now` is read again at its top. An
\* interleaved run ends with a sleep of the nominal length.
WatchdogSleep(d) ==
    /\ wdTodo # <<>>
    /\ Head(wdTodo).op = "wd_sleep"
    /\ serial => webTodo = <<>>
    /\ d >= Head(wdTodo).d
    /\ serial => ticks < TickBudget
    /\ ticks < TickBudget \/ d = Head(wdTodo).d
    /\ now' = now + d
    /\ wdNow' = NoTime
    /\ wdSpared' = {}
    /\ wdTodo' = IF ticks < TickBudget THEN WatchdogIteration ELSE <<>>
    /\ ticks' = ticks + 1
    /\ UNCHANGED <<process, startedAt, expectedRunning, logHandle,
                   watchdogStarted, wdRestartAt, orphans,
                   webTodo, serial, calls, notSupVars>>

\* both threads are between two operations
Quiet == webTodo = <<>> /\ WdIdle

\* the worker the handle holds exits on its own
ProcessExit(k) ==
    /\ process[k] = "running"
    /\ serial => Quiet
    /\ process' = [process EXCEPT ![k] = "exited"]
    /\ UNCHANGED <<startedAt, expectedRunning, logHandle, watchdogStarted,
                   wdNow, wdRestartAt, wdSpared, orphans, now,
                   wdTodo, webTodo, serial, ticks, calls, notSupVars>>

\* a worker no handle holds exits on its own
OrphanExit(k) ==
    /\ orphans[k] > 0
    /\ serial => Quiet
    /\ orphans' = [orphans EXCEPT ![k] = @ - 1]
    /\ UNCHANGED <<process, startedAt, expectedRunning, logHandle,
                   watchdogStarted, wdNow, wdRestartAt, wdSpared, now,
                   wdTodo, webTodo, serial, ticks, calls, notSupVars>>

AllReads ==
    {Reads(exists, tasks, record) :
        exists \in BOOLEAN, tasks \in BOOLEAN,
        record \in UNION {HealthReads(t) : t \in {now}}}

NextSup ==
    \/ \E action \in Actions : WebCall(action)
    \/ \E r \in AllReads : WebStep(r)
    \/ WatchdogTick
    \/ \E r \in AllReads : WatchdogStep(r)
    \/ \E d \in WatchdogSleeps : WatchdogSleep(d)
    \/ \E k \in Kinds : ProcessExit(k)
    \/ \E k \in Kinds : OrphanExit(k)

-----------------------------------------------------------------------------
(* main.py: backup and startup validation of the document store *)

\* what a *.json path holds: nothing, a JSON object, JSON of another root
\* type, or text that does not parse; id tells two objects apart
Absent == [kind |-> "absent", id |-> 0]
JsonObject(n) == [kind |-> "object", id |-> n]
JsonNotObject == [kind |-> "not object", id |-> 0]
Unparsable == [kind |-> "unparsable", id |-> 0]

FileNames == {"u1.json", "u2.json"}

\* (data, error) with data None when the text does not load or is no dict
_read_json_dict(content) ==
    CASE content.kind = "object" -> [data |-> TRUE, error |-> ""]
      [] content.kind = "not object" ->
            [data |-> FALSE, error |-> "json root is not an object"]
      [] OTHER -> [data |-> FALSE, error |-> "exc"]

\* USERS_DIR.glob("*.json")
Glob(dir) == {f \in FileNames : dir[f] # Absent}

NoReport == [total |-> 0, ok |-> 0, restored |-> 0, invalid |-> 0]

\* the body of the loop for one path; move_fails is the set of paths whose
\* shutil.move raises (the exception is swallowed)
ValidateOne(v, src, backups, move_fails) ==
    LET counted == [v.report EXCEPT !.total = @ + 1]
        backup == backups[src]
        backup_data == IF backup # Absent THEN _read_json_dict(backup).data
                       ELSE FALSE
    IN IF _read_json_dict(v.users[src]).data
       THEN [v EXCEPT !.report = [counted EXCEPT !.ok = @ + 1]]
       ELSE IF backup_data
       THEN [v EXCEPT !.users = [@ EXCEPT ![src] = backup],
                      !.report = [counted EXCEPT !.restored = @ + 1]]
       ELSE IF src \in move_fails
       THEN [v EXCEPT !.report = [counted EXCEPT !.invalid = @ + 1]]
       ELSE [users |-> [v.users EXCEPT ![src] = Absent],
             invalid |-> v.invalid \cup {<<src, v.users[src]>>},
             report |-> [counted EXCEPT !.invalid = @ + 1]]

RECURSIVE ValidateLoop(_, _, _, _)
ValidateLoop(v, todo, backups, move_fails) ==
    IF todo = {} THEN v
    ELSE LET src == CHOOSE f \in todo : TRUE IN
         ValidateLoop(ValidateOne(v, src, backups, move_fails),
                      todo \ {src}, backups, move_fails)

validate_json_bd_on_startup(users, backups, invalid, move_fails) ==
    ValidateLoop([users |-> users, invalid |-> invalid, report |-> NoReport],
                 Glob(users), backups, move_fails)

\* every document is copied over its backup
backup_json_bd_once(users, backups) ==
    [f \in FileNames |-> IF users[f] # Absent THEN users[f] ELSE backups[f]]

-----------------------------------------------------------------------------
(* Merge engine driven on bounded inputs *)

MaxTotalLen == 3
MaxHourlyLen == 3

MergeTs == {BadTs, ZTs(0), OffTs(HOUR_SEC, HOUR_SEC), OffTs(HOUR_SEC, 0)}
MergePoints ==
    {NotADict, RawPoint(ZTs(0), NotInt(7))}
    \cup {RawPoint(ts, IntVal(v)) : ts \in MergeTs, v \in {1, 2}}

\* an entry that also carries a field that is no tracked metric
WithExtra(entry) ==
    [entry EXCEPT !.m = [x \in MetricNames \cup {"saves"} |->
                            IF x \in MetricNames THEN entry.m[x] ELSE IntVal(3)]]

MaxNormLen == 3
NormalizePoints ==
    { NotADict,
      RawPoint(BadTs, IntVal(1)),
      RawPoint(ZTs(0), IntVal(1)),
      RawPoint(ZTs(0), IntVal(2)),
      RawPoint(ZTs(0), NoneVal),
      RawPoint(OffTs(0, 0), NotInt(7)),
      RawPoint(OffTs(HOUR_SEC, HOUR_SEC), IntVal(4)),
      RawPoint(ZTs(60), BoolVal(TRUE)),
      RawPoint(ZTs(60), BoolVal(FALSE)),
      WithExtra(RawPoint(NaiveTs(60), IntVal(5))) }

\* the observations of the worked example: t0, t0 + 70 min, t0 + 130 min
HourlyT0 == {0, 1800}
HourlyTs == {ZTs(t0 + d) : t0 \in {0}, d \in {0, 70 * 60, 130 * 60}}
HourlyPoints ==
    {RawPoint(ts, IntVal(v)) : ts \in HourlyTs, v \in {10, 20, 35}}
    \cup {RawPoint(ZTs(70 * 60), NoneVal), RawPoint(BadTs, IntVal(20))}

SeqsUpTo(S, n) == UNION {[1..k -> S] : k \in 0..n}

NoRows == <<>>

CallIdle == callLog = <<>>

WindowIdle ==
    /\ winIn = NoTracking
    /\ winNow = Dt(0, 0)
    /\ winOut = NoTracking
    /\ winOp = "none"

StoreIdle ==
    /\ docs = [o \in OwnerSet |-> Document(FALSE, NoSnapshot, NoTracking)]
    /\ clock = 0
    /\ lastSnap = NoSnapshot
    /\ storeOp = "none"
    /\ applies = 0

HealthIdle ==
    /\ hcHealth = NoHealthFile
    /\ hcStarted = NoTime
    /\ hcNow = 0
    /\ hcOut = <<FALSE, "not called">>

ValidationIdle ==
    /\ userDir = [f \in FileNames |-> Absent]
    /\ backupDir = [f \in FileNames |-> Absent]
    /\ invalidDir = {}
    /\ report = NoReport
    /\ valOp = "none"

OrderIdle ==
    /\ ordDocs = [o \in OwnerSet |-> Document(FALSE, NoSnapshot, NoTracking)]
    /\ revDocs = [o \in OwnerSet |-> Document(FALSE, NoSnapshot, NoTracking)]
    /\ ordSnaps = <<NoSnapshot, NoSnapshot>>
    /\ ordNow = <<0, 0>>
    /\ ordStep = 0

MergeCallIdle ==
    /\ mtBase = NoTracking
    /\ mtExtra = NoTracking
    /\ mtOut = NoTracking
    /\ mtOp = "none"

-----------------------------------------------------------------------------
(* An accounts batch applied to the store (ACCSPARSER.py) *)

\* The keys of an account's stats under which history is accumulated.
HistoryFields ==
    {"followers_history", "last_post_tracking", "post_history", "pending_post_history"}

\* An item of a document's "accounts" list is the string the user typed:
\* form "url" starts with http:// or https://, "at" is "@nick", "bare" is
\* "nick" and "blank" is empty after strip().
Nicks == {"a1", "a2"}
AccountItem(form, nick) == [form |-> form, nick |-> nick]
ProfileUrl(nick) == AccountItem("url", nick)
BlankKey == AccountItem("blank", "")
AccountKeys == {ProfileUrl(n) : n \in Nicks}

normalize_account(value) ==
    IF value.form = "blank" THEN BlankKey
    ELSE IF value.form = "url" THEN value
    ELSE ProfileUrl(value.nick)

\* What stats["accounts"] holds under one key: nothing, a dict, or a value
\* that is not a dict.  A history field that the dict lacks reads "absent".
NoFields == [f \in HistoryFields |-> "absent"]
AllFields(h) == [f \in HistoryFields |-> h]
OnlyField(g, h) == [f \in HistoryFields |-> IF f = g THEN h ELSE "absent"]
AccountStats(snap, hist) == [kind |-> "dict", snap |-> snap, hist |-> hist]
MissingStats == [kind |-> "missing", snap |-> "none", hist |-> NoFields]
NotDictStats == [kind |-> "other", snap |-> "none", hist |-> NoFields]

\* A user document: the "accounts" and "posts" lists and stats["accounts"].
UserData(accounts, stats, posts) ==
    [accounts |-> accounts, stats |-> stats, posts |-> posts]
NoStats == [key \in AccountKeys |-> MissingStats]

\* the payload stored as it came, whatever the document held before
StoredAsSent(prev, payload) == payload

\* What is stored under a key that the batch carries: the payload, with
\* each history field that the previous dict has taken from that dict.
StoredFor(prev, payload) ==
    LET prev_stats == IF prev.kind = "dict" THEN prev.hist ELSE NoFields
    IN  AccountStats(payload.snap,
                     [f \in HistoryFields |->
                         IF prev_stats[f] # "absent" THEN prev_stats[f]
                         ELSE payload.hist[f]])

\* The loop over current["accounts"]; stats_by_url maps a key that the batch
\* lacks to MissingStats.
RECURSIVE ApplyItems(_, _, _)
ApplyItems(items, stats, stats_by_url) ==
    IF items = <<>> THEN stats
    ELSE LET key == normalize_account(Head(items))
             next == IF key \in AccountKeys /\ stats_by_url[key].kind # "missing"
                     THEN [stats EXCEPT
                              ![key] = StoredFor(stats[key], stats_by_url[key])]
                     ELSE stats
         IN  ApplyItems(Tail(items), next, stats_by_url)

\* the body of the "with path_lock(path)" block for one document
UpdateAccountsOne(current, stats_by_url) ==
    [current EXCEPT !.stats = ApplyItems(current.accounts, current.stats, stats_by_url)]

\* With no other writer the re-read inside the lock finds what _load_users
\* read.
_update_users_accounts_stats(users, stats_by_url) ==
    [o \in OwnerSet |-> UpdateAccountsOne(users[o], stats_by_url)]

Subscribed(data, key) ==
    \E i \in 1..Len(data.accounts) : normalize_account(data.accounts[i]) = key

MaxAccApplies == 2

\* Histories written by the view carry "h1"; a payload that brings history
\* fields of its own carries "h2", so the origin of a stored field shows.
StoredEntries ==
    { MissingStats, NotDictStats, AccountStats("s0", NoFields),
      AccountStats("s0", AllFields("h1")),
      AccountStats("s0", OnlyField("followers_history", "h1")) }
BatchPayloads ==
    { AccountStats("s1", NoFields), AccountStats("s2", AllFields("h2")) }
AccountLists ==
    { <<>>,
      <<AccountItem("at", "a1")>>,
      <<AccountItem("bare", "a1"), AccountItem("url", "a2")>>,
      <<AccountItem("blank", ""), AccountItem("at", "a2"), AccountItem("bare", "a2")>> }
OtherDocs ==
    { UserData(<<>>, [NoStats EXCEPT ![ProfileUrl("a1")] = AccountStats("s0", AllFields("h1"))], {}),
      UserData(<<AccountItem("url", "a1")>>,
               [NoStats EXCEPT ![ProfileUrl("a1")] = AccountStats("s0", AllFields("h1"))], {}) }
\* _apply_event_sync returns before the call when the batch is empty
Batches ==
    [AccountKeys -> BatchPayloads \cup {MissingStats}] \ {NoStats}

AccountsIdle ==
    /\ accUsers = [o \in OwnerSet |-> UserData(<<>>, NoStats, {})]
    /\ accBatch = NoStats
    /\ accApplies = 0

-----------------------------------------------------------------------------
(* Writers of the user documents and their locks (json_file_lock.py,        *)
(* auth.py, ACCSPARSER.py, threads.py).  Two threads write: the consumer's  *)
(* apply, handed to a worker thread by asyncio.to_thread, and the event     *)
(* loop, which runs the request handlers one at a time, none of them        *)
(* awaiting between its read and its write.                                 *)

LockProcs == {"consumer", "loop"}
Posts == {"p1", "p2"}
ViewKey == ProfileUrl("a1")

\* the first url of a snapshot's "posts" list ("" when it has none)
FirstUrl(snap) ==
    IF snap = "s1" THEN "p1" ELSE IF snap = "s2" THEN "p2" ELSE ""

\* a follower history after one more entry was appended to it
Appended(h) == IF h = "absent" THEN "h1" ELSE "h2"

NoDoc == UserData(<<>>, NoStats, {})
StartDoc(posts) ==
    UserData(<<AccountItem("at", "a1")>>,
             [NoStats EXCEPT ![ViewKey] = AccountStats("s0", NoFields)], posts)

\* what a thread holds while it works on one document
Local(pc, o, op, arg, read, current, computed) ==
    [pc |-> pc, o |-> o, op |-> op, arg |-> arg, read |-> read,
     current |-> current, computed |-> computed]
IdleLocal == Local("idle", "u1", "none", NoStats, NoDoc, NoDoc, NoDoc)

\* the lock of a document can be taken when nobody holds it; the variant
\* below takes it regardless
LockAlwaysFree(holder) == TRUE
LockFree(holder) == holder = "none"

\* threads.py 853-856 and 870-875: the mutators of add and remove
AddPost(data, post_item) == [data EXCEPT !.posts = @ \cup {post_item}]
RemovePost(data, post_item) == [data EXCEPT !.posts = @ \ {post_item}]

\* threads.py 262-529: what the view derives from the document it read
\* without the lock.  should_append is the outcome of the test on the last
\* history entry (315-327), auto_enabled that of auto_add_latest (508).
\* The result holds item_stats under the key and posts_list as the posts.
ViewComputed(data, key, should_append, auto_enabled) ==
    LET item_stats == data.stats[key]
        first_url == FirstUrl(item_stats.snap)
        history == IF should_append
                   THEN [item_stats.hist EXCEPT
                            !["followers_history"] = Appended(@)]
                   ELSE item_stats.hist
        posts_list == IF first_url # "" /\ auto_enabled
                      THEN data.posts \cup {first_url}
                      ELSE data.posts
    IN  IF item_stats.kind # "dict" THEN data
        ELSE [data EXCEPT !.stats[key] = AccountStats(item_stats.snap, history),
                          !.posts = posts_list]

\* threads.py 532-537: the view's mutator
ViewMutate(current, key, computed) ==
    [current EXCEPT !.stats[key] = computed.stats[key],
                    !.posts = computed.posts]

\* what update_user_data or the consumer writes from the re-read document
Mutated(local) ==
    CASE local.op = "batch" -> UpdateAccountsOne(local.current, local.arg)
      [] local.op = "add" -> AddPost(local.current, local.arg)
      [] local.op = "remove" -> RemovePost(local.current, local.arg)
      [] local.op = "view" -> ViewMutate(local.current, ViewKey, local.computed)

MaxLockBatches == 2
MaxLockRequests == 2
LockBatches ==
    {[NoStats EXCEPT ![ViewKey] = AccountStats(s, NoFields)] : s \in {"s1", "s2"}}

LockIdle ==
    /\ lkFile = [o \in OwnerSet |-> NoDoc]
    /\ lkHolder = [o \in OwnerSet |-> "none"]
    /\ lkProc = [p \in LockProcs |-> IdleLocal]
    /\ lkDone = [p \in LockProcs |-> 0]

-----------------------------------------------------------------------------
(* A worker's heartbeat file and the watchdog reading it (_health_update in *)
(* ParserPost.py and ACCSPARSER.py, _read_health in parsers_bridge.py).     *)
(* A field group is what one call passes as kwargs: "parser" is parser,     *)
(* pid and started_at_utc, "request" is last_request_ts_utc and             *)
(* last_request_url, "response" and "error" likewise.  A group's value is   *)
(* the number of the update that wrote it, 0 when the record lacks it.      *)

FieldGroups == {"parser", "request", "response", "error"}
RecordKeys == FieldGroups \cup {"updated_at_utc"}
EmptyRecord == [k \in RecordKeys |-> 0]

\* The text of a file: "missing" is no file, "json" a complete object,
\* "cut" a text that json.loads rejects (empty, or written in part).
FileText(kind, record) == [kind |-> kind, record |-> record]
MissingFile == FileText("missing", EmptyRecord)
CutFile == FileText("cut", EmptyRecord)

\* read_text and json.loads with the fallback to {} on any exception, as
\* _read_health and the head of _health_update do
ReadRecord(file) == IF file.kind = "json" THEN file.record ELSE EmptyRecord

\* payload.update(kwargs) and the new updated_at_utc
Updated(payload, group, n) ==
    [payload EXCEPT ![group] = n, !["updated_at_utc"] = n]

\* What stands under HEALTH_PATH while the temp file next to it is being
\* written: the record as it was.  The variant below writes in place.
VisibleInPlace(file, temp) == temp
Visible(file, temp) == file

MaxHeartbeats == 3

Worker(pc, old, payload, n) == [pc |-> pc, old |-> old, payload |-> payload, n |-> n]

HeartbeatIdle ==
    /\ hbFile = MissingFile
    /\ hbTemp = MissingFile
    /\ hbProc = Worker("idle", EmptyRecord, EmptyRecord, 0)
    /\ hbSeen = EmptyRecord

EngineIdle ==
    /\ tlA = <<>> /\ tlB = <<>> /\ tlC = <<>>
    /\ startTs = Dt(0, 0)
    /\ outRows = NoRows
    /\ outTl = <<>>
    /\ lastOp = "none"

InitMerge ==
    /\ ValidationIdle /\ OrderIdle /\ MergeCallIdle /\ AccountsIdle /\ LockIdle /\ HeartbeatIdle
    /\ QueueIdle
    /\ SupIdle
    /\ CallIdle /\ WindowIdle /\ StoreIdle /\ HealthIdle
    /\ tlA \in SeqsUpTo(MergePoints, MaxTotalLen)
    /\ tlB \in SeqsUpTo(MergePoints, MaxTotalLen - Len(tlA))
    /\ tlC \in SeqsUpTo(MergePoints, MaxTotalLen - Len(tlA) - Len(tlB))
    /\ startTs = Dt(0, 0)
    /\ outRows = NoRows
    /\ outTl = <<>>
    /\ lastOp = "none"

InitHourly ==
    /\ ValidationIdle /\ OrderIdle /\ MergeCallIdle /\ AccountsIdle /\ LockIdle /\ HeartbeatIdle
    /\ QueueIdle
    /\ SupIdle
    /\ CallIdle /\ WindowIdle /\ StoreIdle /\ HealthIdle
    /\ tlA \in SeqsUpTo(HourlyPoints, MaxHourlyLen)
    /\ tlB = <<>>
    /\ tlC = <<>>
    /\ startTs \in {Dt(t0, 0) : t0 \in HourlyT0}
    /\ outRows = NoRows
    /\ outTl = <<>>
    /\ lastOp = "none"

InitNormalize ==
    /\ ValidationIdle /\ OrderIdle /\ MergeCallIdle /\ AccountsIdle /\ LockIdle /\ HeartbeatIdle
    /\ QueueIdle
    /\ SupIdle
    /\ CallIdle /\ WindowIdle /\ StoreIdle /\ HealthIdle
    /\ tlA \in SeqsUpTo(NormalizePoints, MaxNormLen)
    /\ tlB = <<>>
    /\ tlC = <<>>
    /\ startTs = Dt(0, 0)
    /\ outRows = NoRows
    /\ outTl = <<>>
    /\ lastOp = "none"

OpNormalize ==
    /\ lastOp = "none"
    /\ outTl' = _normalize_timeline(tlA)
    /\ lastOp' = "normalize"
    /\ UNCHANGED <<tlA, tlB, tlC, startTs, outRows, notMergeVars>>

OpMerge ==
    /\ lastOp = "none"
    /\ outTl' = MergeTimeline(tlA, tlB)
    /\ lastOp' = "merge"
    /\ UNCHANGED <<tlA, tlB, tlC, startTs, outRows, notMergeVars>>

OpHourly ==
    /\ lastOp = "none"
    /\ outRows' = _compute_hourly_metric(tlA, startTs, "views")
    /\ lastOp' = "hourly"
    /\ UNCHANGED <<tlA, tlB, tlC, startTs, outTl, notMergeVars>>

NextEngine == OpNormalize \/ OpMerge \/ OpHourly

\* ---- control calls made one after the other ----

MaxIdemCalls == 3

\* the actions that start or stop (a restart is a stop followed by a start)
StartStopActions == {"start_all", "stop_all", "start_posts", "stop_posts",
                     "start_accounts", "stop_accounts"}

\* one entry of callLog: the call, what it read, and the supervisor's state
\* before and after it
CallEntry(action, exists, before, after) ==
    [action |-> action, exists |-> exists, before |-> before, after |-> after]

InitIdem ==
    /\ ValidationIdle /\ OrderIdle /\ MergeCallIdle /\ AccountsIdle /\ LockIdle /\ HeartbeatIdle
    /\ SupStart(TRUE) /\ QueueIdle /\ EngineIdle /\ WindowIdle /\ StoreIdle /\ HealthIdle
    /\ callLog = <<>>

\* POST /api/threads/parsers/control served to its end while no other thread
\* runs
ControlCall(action, exists) ==
    /\ webTodo = <<>> /\ wdTodo = <<>>
    /\ calls < MaxIdemCalls
    /\ LET after == RunOps(SupState, control_parsers_action(action), exists)
           entry == CallEntry(action, exists, SupState, after)
       IN /\ SetSup(after)
          /\ callLog' = IF Len(callLog) < 2 THEN Append(callLog, entry)
                         ELSE <<callLog[2], entry>>
    /\ calls' = calls + 1
    /\ UNCHANGED <<wdTodo, webTodo, serial, ticks, notCallVars>>

NextIdem ==
    \/ \E action \in StartStopActions : \E exists \in [Kinds -> BOOLEAN] :
          ControlCall(action, exists)
    \/ \E k \in Kinds : ProcessExit(k)
    \/ \E k \in Kinds : OrphanExit(k)

SpecIdem == InitIdem /\ [][NextIdem]_vars

\* ---- one tracking window under _update_history_24h ----

MaxWindowLen == 2

\* t0 written three ways, a start half an hour later, and no start
WindowStarts == {ZTs(0), OffTs(3 * HOUR_SEC, 3 * HOUR_SEC), NaiveTs(1800), BadTs}
\* now, in seconds after t0: before the start, on the hour marks and around
\* the end of the window
WindowNows ==
    {0 - 1, 0, HOUR_SEC - 1, HOUR_SEC, 2 * HOUR_SEC + 1800, DAY_SEC - 1, DAY_SEC,
     DAY_SEC + 1, DAY_SEC + 6 * HOUR_SEC}
WindowLater == {1, HOUR_SEC, DAY_SEC}
WindowPoints ==
    {RawPoint(ZTs(d), IntVal(v)) : d \in {0, 70 * 60}, v \in {10, 25}}

InitWindow ==
    /\ ValidationIdle /\ OrderIdle /\ MergeCallIdle /\ AccountsIdle /\ LockIdle /\ HeartbeatIdle
    /\ QueueIdle /\ SupIdle /\ EngineIdle /\ CallIdle /\ StoreIdle /\ HealthIdle
    /\ winIn \in {Tracking(st, tl, NoHistory) :
                    st \in WindowStarts, tl \in SeqsUpTo(WindowPoints, MaxWindowLen)}
    /\ winNow \in {Dt(t, 0) : t \in WindowNows}
    /\ winOut = NoTracking
    /\ winOp = "none"

\* _update_history_24h(tracking, now_ts) on a tracking without a history
OpUpdateHistory ==
    /\ winOp = "none"
    /\ winOut' = _update_history_24h(winIn, winNow)
    /\ winOp' = "first"
    /\ UNCHANGED <<winIn, winNow, notWindowVars>>

\* the next call on the tracking the previous one returned, d seconds later
OpUpdateHistoryAgain(d) ==
    /\ winOp = "first"
    /\ winNow' = AddSeconds(winNow, d)
    /\ winOut' = _update_history_24h(winOut, winNow')
    /\ winOp' = "again"
    /\ UNCHANGED <<winIn, notWindowVars>>

NextWindow ==
    \/ OpUpdateHistory
    \/ \E d \in WindowLater : OpUpdateHistoryAgain(d)

SpecWindow == InitWindow /\ [][NextWindow]_vars

\* ---- the store under posts batches ----

MaxApplies == 3

\* how far the clock moves between two batches
ClockSteps == {0, 13 * HOUR_SEC}
\* a tracking left by an earlier subscription, begun two hours before time 0
LegacyTracking ==
    Tracking(OffTs(0 - 2 * HOUR_SEC, 0),
             <<RawPoint(OffTs(0 - 2 * HOUR_SEC, 0), IntVal(5))>>, NoHistory)
\* what a batch says about the post at time t: fetched just now (written
\* with Z, or with +03:00), fetched half an hour ago (no offset written),
\* an unreadable fetch time, or none
SnapshotsAt(t) ==
    {Snapshot(TRUE, ZTs(t), IntVal(10)),
     Snapshot(TRUE, OffTs(t + 3 * HOUR_SEC, 3 * HOUR_SEC), IntVal(25)),
     Snapshot(TRUE, NaiveTs(t - 1800), IntVal(10)),
     Snapshot(TRUE, BadTs, IntVal(25)),
     Snapshot(FALSE, BadTs, IntVal(10))}

InitStore ==
    /\ ValidationIdle /\ OrderIdle /\ MergeCallIdle /\ AccountsIdle /\ LockIdle /\ HeartbeatIdle
    /\ QueueIdle /\ SupIdle /\ EngineIdle /\ CallIdle /\ WindowIdle /\ HealthIdle
    /\ docs \in {[o \in OwnerSet |-> IF o = "u1" THEN Document(TRUE, NoSnapshot, NoTracking)
                                               ELSE other] :
                    other \in {Document(FALSE, NoSnapshot, NoTracking),
                               Document(TRUE, NoSnapshot, NoTracking),
                               Document(FALSE, NoSnapshot, LegacyTracking)}}
    /\ clock = 0
    /\ lastSnap = NoSnapshot
    /\ storeOp = "none"
    /\ applies = 0

\* one posts_stats_batch event applied d seconds after the previous one
ApplyBatch(d, snapshot) ==
    /\ applies < MaxApplies
    /\ clock' = clock + d
    /\ docs' = _update_users_posts_stats(docs, snapshot, Dt(clock', 0))
    /\ lastSnap' = snapshot
    /\ storeOp' = "apply"
    /\ applies' = applies + 1
    /\ UNCHANGED notStoreVars

\* the batch applied last is delivered and applied once more
ApplyAgain(d) ==
    /\ applies < MaxApplies
    /\ lastSnap.present
    /\ clock' = clock + d
    /\ docs' = _update_users_posts_stats(docs, lastSnap, Dt(clock', 0))
    /\ storeOp' = "again"
    /\ applies' = applies + 1
    /\ UNCHANGED <<lastSnap, notStoreVars>>

NextStore ==
    \/ \E d \in ClockSteps : \E snapshot \in SnapshotsAt(clock + d) : ApplyBatch(d, snapshot)
    \/ \E d \in ClockSteps : ApplyAgain(d)

SpecStore == InitStore /\ [][NextStore]_vars

\* ---- a store that holds windows written by earlier runs ----

\* what a document may hold for the post: nothing; a window begun two hours
\* before time 0; a window begun one hour before time 0; a window of the
\* instant of the first written with +03:00; a window whose start is
\* unreadable
LegacyTrackings ==
    {NoTracking,
     LegacyTracking,
     Tracking(ZTs(0 - HOUR_SEC), <<RawPoint(ZTs(0 - HOUR_SEC), IntVal(6))>>, NoHistory),
     Tracking(OffTs(HOUR_SEC, 3 * HOUR_SEC),
              <<RawPoint(OffTs(HOUR_SEC, 3 * HOUR_SEC), IntVal(9))>>, NoHistory),
     Tracking(BadTs, <<RawPoint(ZTs(0 - HOUR_SEC), IntVal(7))>>, NoHistory)}

\* both documents subscribed; room for one batch and one more application
InitLegacy ==
    /\ QueueIdle /\ SupIdle /\ EngineIdle /\ CallIdle /\ WindowIdle /\ HealthIdle
    /\ ValidationIdle /\ OrderIdle /\ MergeCallIdle /\ AccountsIdle /\ LockIdle /\ HeartbeatIdle
    /\ docs \in [OwnerSet -> {Document(TRUE, NoSnapshot, t) : t \in LegacyTrackings}]
    /\ clock = 0
    /\ lastSnap = NoSnapshot
    /\ storeOp = "none"
    /\ applies = MaxApplies - 2

SpecLegacy == InitLegacy /\ [][NextStore]_vars

\* ---- one reconciliation of two windows of a post ----

MaxRankLen == 2

\* a history_24h as an earlier batch left it; tag tells two histories apart
StoredHistory(start, finalized, tag) ==
    [NoHistory EXCEPT !.present = TRUE,
                      !.start_ts_utc = start,
                      !.ready_hours = IF finalized THEN TRACK_HOURS ELSE 1,
                      !.finalized = finalized,
                      !.updated_at_utc = ZTs(tag)]

RankTimeline(n) == [i \in 1..n |-> RawPoint(ZTs(i * 60), IntVal(i))]

\* windows begun at t0, an hour later, or with no readable start; with 0 to
\* MaxRankLen points; without history, with an open one or a finalized one
RankWindows(tag) ==
    {Tracking(st, RankTimeline(n),
              IF h = "none" THEN NoHistory ELSE StoredHistory(st, h = "finalized", tag)) :
        st \in {ZTs(0), ZTs(HOUR_SEC), BadTs},
        n \in 0..MaxRankLen,
        h \in {"none", "open", "finalized"}}

InitRank ==
    /\ QueueIdle /\ SupIdle /\ EngineIdle /\ CallIdle /\ WindowIdle /\ StoreIdle
    /\ HealthIdle /\ ValidationIdle /\ OrderIdle /\ AccountsIdle /\ LockIdle /\ HeartbeatIdle
    /\ mtBase \in RankWindows(1)
    /\ mtExtra \in RankWindows(2)
    /\ mtOut = NoTracking
    /\ mtOp = "none"

\* _merge_tracking(base_tracking, extra_tracking)
OpMergeTracking ==
    /\ mtOp = "none"
    /\ mtOut' = _merge_tracking(mtBase, mtExtra)
    /\ mtOp' = "merged"
    /\ UNCHANGED <<mtBase, mtExtra, notMergeCallVars>>

NextRank == OpMergeTracking

SpecRank == InitRank /\ [][NextRank]_vars

\* ---- the heartbeat classifier on bounded inputs ----

HealthNow == 2000
\* ages around the timeout, and a timestamp ahead of the clock
HealthAges == {0 - 5, 0, HEALTH_TIMEOUT_SEC - 1, HEALTH_TIMEOUT_SEC, HEALTH_TIMEOUT_SEC + 1}
\* a timestamp of the given age at the instant t, written three ways
HealthStamps(t) ==
    {BadTs}
    \cup {ZTs(t - a) : a \in HealthAges}
    \cup {NaiveTs(t - a) : a \in {HEALTH_TIMEOUT_SEC, HEALTH_TIMEOUT_SEC + 1}}
    \cup {OffTs(t - a + 3 * HOUR_SEC, 3 * HOUR_SEC) : a \in {HEALTH_TIMEOUT_SEC, HEALTH_TIMEOUT_SEC + 1}}
HealthFiles(t) ==
    {HealthFile(kind, BadTs, BadTs) : kind \in {"unreadable", "notdict", "empty"}}
    \cup {HealthFile("dict", req, resp) : req \in HealthStamps(t), resp \in HealthStamps(t)}
\* no start time, and starts around the grace period and ahead of the clock
HealthStarts(t) ==
    {NoTime, t + 5, t, t - (HEALTH_START_GRACE_SEC - 1), t - HEALTH_START_GRACE_SEC,
     t - (HEALTH_START_GRACE_SEC + 1), t - HOUR_SEC}

InitHealth ==
    /\ ValidationIdle /\ OrderIdle /\ MergeCallIdle /\ AccountsIdle /\ LockIdle /\ HeartbeatIdle
    /\ QueueIdle /\ SupIdle /\ EngineIdle /\ CallIdle /\ WindowIdle /\ StoreIdle
    /\ hcNow = HealthNow
    /\ hcHealth \in HealthFiles(HealthNow)
    /\ hcStarted \in HealthStarts(HealthNow)
    /\ hcOut = <<FALSE, "not called">>

\* one call of _health_stale
OpHealthStale ==
    /\ hcOut = <<FALSE, "not called">>
    /\ hcOut' = HealthStaleOfFile(hcHealth, hcStarted, hcNow)
    /\ UNCHANGED <<hcHealth, hcStarted, hcNow, notHealthVars>>

NextHealth == OpHealthStale

SpecHealth == InitHealth /\ [][NextHealth]_vars

\* ---- startup validation on a store directory found in any condition ----

StoreContents == {Absent, JsonObject(1), JsonNotObject, Unparsable}
BackupContents == {Absent, JsonObject(2), Unparsable}

InitValidate ==
    /\ QueueIdle /\ SupIdle /\ EngineIdle /\ CallIdle /\ WindowIdle /\ StoreIdle
    /\ HealthIdle /\ OrderIdle /\ MergeCallIdle /\ AccountsIdle /\ LockIdle /\ HeartbeatIdle
    /\ userDir \in [FileNames -> StoreContents]
    /\ backupDir \in [FileNames -> BackupContents]
    /\ invalidDir = {}
    /\ report = NoReport
    /\ valOp = "none"

\* lifespan runs the validation before anything else
ValidateOnStartup(move_fails) ==
    /\ valOp = "none"
    /\ LET v == validate_json_bd_on_startup(userDir, backupDir, invalidDir, move_fails)
       IN /\ userDir' = v.users
          /\ invalidDir' = v.invalid
          /\ report' = v.report
    /\ valOp' = "validated"
    /\ UNCHANGED <<backupDir, notValidationVars>>

\* backup_loop, started by lifespan after the validation
BackupOnce ==
    /\ valOp = "validated"
    /\ backupDir' = backup_json_bd_once(userDir, backupDir)
    /\ valOp' = "backed up"
    /\ UNCHANGED <<userDir, invalidDir, report, notValidationVars>>

NextValidate ==
    \/ \E move_fails \in SUBSET FileNames : ValidateOnStartup(move_fails)
    \/ BackupOnce

SpecValidate == InitValidate /\ [][NextValidate]_vars

\* ---- two snapshots of one post arriving in either order ----

\* how much later the second snapshot was fetched
FetchGaps == {1800, 2 * HOUR_SEC, 25 * HOUR_SEC}
\* how long after the later fetch the first batch is applied, and how long
\* after that the second
ApplyDelays == {0, HOUR_SEC}

InitOrder ==
    /\ QueueIdle /\ SupIdle /\ EngineIdle /\ CallIdle /\ WindowIdle /\ StoreIdle
    /\ HealthIdle /\ ValidationIdle /\ MergeCallIdle /\ AccountsIdle /\ LockIdle /\ HeartbeatIdle
    /\ ordDocs \in {[o \in OwnerSet |-> IF o = "u1" THEN Document(TRUE, NoSnapshot, NoTracking)
                                                  ELSE other] :
                       other \in {Document(FALSE, NoSnapshot, NoTracking),
                                  Document(TRUE, NoSnapshot, NoTracking),
                                  Document(TRUE, NoSnapshot, LegacyTracking)}}
    /\ revDocs = ordDocs
    /\ ordSnaps \in {<<Snapshot(TRUE, t1, IntVal(10)), Snapshot(TRUE, ZTs(gap), IntVal(25))>> :
                        t1 \in {ZTs(0), OffTs(3 * HOUR_SEC, 3 * HOUR_SEC)},
                        gap \in FetchGaps}
    /\ ordNow \in {<<ordSnaps[2].fetched_at_utc.local + d1,
                     ordSnaps[2].fetched_at_utc.local + d1 + d2>> :
                      d1 \in ApplyDelays, d2 \in ApplyDelays}
    /\ ordStep = 0

\* the next batch reaches each store: the earlier snapshot first in one,
\* the later snapshot first in the other
OrderApply ==
    /\ ordStep < 2
    /\ LET k == ordStep + 1 IN
       /\ ordDocs' = _update_users_posts_stats(ordDocs, ordSnaps[k], Dt(ordNow[k], 0))
       /\ revDocs' = _update_users_posts_stats(revDocs, ordSnaps[3 - k], Dt(ordNow[k], 0))
       /\ ordStep' = k
    /\ UNCHANGED <<ordSnaps, ordNow, notOrderVars>>

NextOrder == OrderApply

SpecOrder == InitOrder /\ [][NextOrder]_vars

SpecMerge == InitMerge /\ [][NextEngine]_vars
SpecHourly == InitHourly /\ [][NextEngine]_vars
SpecNormalize == InitNormalize /\ [][NextEngine]_vars
InitQueue ==
    /\ ValidationIdle /\ OrderIdle /\ MergeCallIdle /\ AccountsIdle /\ LockIdle /\ HeartbeatIdle
    /\ QueueIdle /\ EngineIdle /\ SupIdle /\ CallIdle /\ WindowIdle /\ StoreIdle /\ HealthIdle
SpecQueue == InitQueue /\ [][NextQueue]_vars

\* the event loop runs the consumer task whenever it can go on, and the
\* apply handed to a thread comes back
ApplyEnds == ApplyOk \/ \E error \in ApplyErrors : ApplyFail(error)
SpecQueueLive ==
    /\ InitQueue
    /\ [][NextQueue]_vars
    /\ WF_vars(WorkerCheck)
    /\ WF_vars(WorkerGet)
    /\ WF_vars(WorkerTimeout)
    /\ WF_vars(ApplyEnds)

\* as SpecQueueLive, and the coroutine awaiting the finished task is resumed
SpecQueueStop ==
    /\ InitQueue
    /\ [][NextQueue]_vars
    /\ WF_vars(WorkerCheck)
    /\ WF_vars(WorkerGet)
    /\ WF_vars(WorkerTimeout)
    /\ WF_vars(ApplyEnds)
    /\ WF_vars(StopJoin)

InitSup ==
    SupStart(TRUE) /\ ValidationIdle /\ OrderIdle /\ MergeCallIdle /\ AccountsIdle /\ LockIdle /\ HeartbeatIdle
    /\ /\ QueueIdle /\ EngineIdle /\ CallIdle /\ WindowIdle /\ StoreIdle
    /\ HealthIdle
InitSupConc ==
    SupStart(FALSE) /\ ValidationIdle /\ OrderIdle /\ MergeCallIdle /\ AccountsIdle /\ LockIdle /\ HeartbeatIdle
    /\ /\ QueueIdle /\ EngineIdle /\ CallIdle /\ WindowIdle /\ StoreIdle
    /\ HealthIdle
\* the callers take turns
Spec == InitSup /\ [][NextSup]_vars
\* the watchdog thread and the request thread interleave
SpecConc == InitSupConc /\ [][NextSup]_vars

-----------------------------------------------------------------------------
(* Driving the accounts batch *)

InitAccounts ==
    /\ QueueIdle /\ SupIdle /\ EngineIdle /\ CallIdle /\ WindowIdle /\ StoreIdle
    /\ HealthIdle /\ ValidationIdle /\ OrderIdle /\ MergeCallIdle
    /\ LockIdle /\ HeartbeatIdle
    /\ accUsers \in {[o \in OwnerSet |-> IF o = "u1" THEN UserData(l, s, {}) ELSE other] :
                        l \in AccountLists, s \in [AccountKeys -> StoredEntries],
                        other \in OtherDocs}
    /\ accBatch = NoStats
    /\ accApplies = 0

\* parser_events.py 47-49: one accounts_stats_batch applied
ApplyAccounts ==
    /\ accApplies < MaxAccApplies
    /\ \E stats_by_url \in Batches :
          /\ accUsers' = _update_users_accounts_stats(accUsers, stats_by_url)
          /\ accBatch' = stats_by_url
    /\ accApplies' = accApplies + 1
    /\ UNCHANGED notAccountsVars

NextAccounts == ApplyAccounts
SpecAccounts == InitAccounts /\ [][NextAccounts]_vars

-----------------------------------------------------------------------------
(* Driving the writers of the user documents *)

InitLock ==
    /\ QueueIdle /\ SupIdle /\ EngineIdle /\ CallIdle /\ WindowIdle /\ StoreIdle
    /\ HealthIdle /\ ValidationIdle /\ OrderIdle /\ MergeCallIdle
    /\ AccountsIdle /\ HeartbeatIdle
    /\ lkFile \in {[o \in OwnerSet |-> StartDoc(IF o = "u1" THEN posts ELSE {})] :
                      posts \in {{}, {"p1"}}}
    /\ lkHolder = [o \in OwnerSet |-> "none"]
    /\ lkProc = [p \in LockProcs |-> IdleLocal]
    /\ lkDone = [p \in LockProcs |-> 0]

Begin(p, local) ==
    /\ lkProc[p].pc = "idle"
    /\ lkProc' = [lkProc EXCEPT ![p] = local]
    /\ lkDone' = [lkDone EXCEPT ![p] = @ + 1]
    /\ UNCHANGED <<lkFile, lkHolder, notLockVars>>

\* parser_events.py 47-49, ACCSPARSER.py 322-323: an accounts batch reaches
\* _update_users_accounts_stats, which starts with the first document
ConsumerApply ==
    /\ lkDone["consumer"] < MaxLockBatches
    /\ \E stats_by_url \in LockBatches :
          Begin("consumer",
                Local("acquire", Owners[1], "batch", stats_by_url, NoDoc, NoDoc, NoDoc))

\* threads.py 845-859: POST /api/threads/posts/add
RequestAddPost ==
    /\ lkDone["loop"] < MaxLockRequests
    /\ \E o \in OwnerSet, post_item \in Posts :
          Begin("loop", Local("acquire", o, "add", post_item, NoDoc, NoDoc, NoDoc))

\* threads.py 862-878: POST /api/threads/posts/remove
RequestRemovePost ==
    /\ lkDone["loop"] < MaxLockRequests
    /\ \E o \in OwnerSet, post_item \in Posts :
          Begin("loop", Local("acquire", o, "remove", post_item, NoDoc, NoDoc, NoDoc))

\* threads.py 822-832 and 261-539: GET /api/threads/accounts/stats reads
\* the document without the lock (262) and goes on to update_user_data
\* only if it changed something (531)
RequestView ==
    /\ lkDone["loop"] < MaxLockRequests
    /\ \E o \in OwnerSet, should_append \in BOOLEAN, auto_enabled \in BOOLEAN :
          LET data == lkFile[o]
              computed == ViewComputed(data, ViewKey, should_append, auto_enabled)
          IN  Begin("loop",
                    IF computed # data
                    THEN Local("acquire", o, "view", NoStats, data, NoDoc, computed)
                    ELSE IdleLocal)

\* json_file_lock.py 10-23: path_lock is entered
Acquire(p) ==
    /\ lkProc[p].pc = "acquire"
    /\ LockFree(lkHolder[lkProc[p].o])
    /\ lkHolder' = [lkHolder EXCEPT ![lkProc[p].o] = p]
    /\ lkProc' = [lkProc EXCEPT ![p].pc = "read"]
    /\ UNCHANGED <<lkFile, lkDone, notLockVars>>

\* json_file_lock.py 19: msvcrt's LK_LOCK gives up after ten tries and
\* raises; the caller's operation ends there
LockTimesOut(p) ==
    /\ lkProc[p].pc = "acquire"
    /\ ~LockFree(lkHolder[lkProc[p].o])
    /\ lkProc' = [lkProc EXCEPT ![p] = IdleLocal]
    /\ UNCHANGED <<lkFile, lkHolder, lkDone, notLockVars>>

\* auth.py 81-84, ACCSPARSER.py 326-328: the document is read again
Reread(p) ==
    /\ lkProc[p].pc = "read"
    /\ lkProc' = [lkProc EXCEPT ![p].pc = "write", ![p].current = lkFile[lkProc[p].o]]
    /\ UNCHANGED <<lkFile, lkHolder, lkDone, notLockVars>>

\* auth.py 87-88, ACCSPARSER.py 332-349: the change is made on the copy and
\* the copy written to a temp file that replaces the document
WriteBack(p) ==
    /\ lkProc[p].pc = "write"
    /\ lkFile' = [lkFile EXCEPT ![lkProc[p].o] = Mutated(lkProc[p])]
    /\ lkProc' = [lkProc EXCEPT ![p].pc = "release"]
    /\ UNCHANGED <<lkHolder, lkDone, notLockVars>>

\* json_file_lock.py 24-41: the lock is given back; the consumer goes on to
\* the next document
Release(p) ==
    /\ lkProc[p].pc = "release"
    /\ lkHolder' = [lkHolder EXCEPT ![lkProc[p].o] = "none"]
    /\ lkProc' = [lkProc EXCEPT ![p] =
                     IF p = "consumer" /\ lkProc[p].o = Owners[1]
                     THEN Local("acquire", Owners[2], "batch", lkProc[p].arg,
                                NoDoc, NoDoc, NoDoc)
                     ELSE IdleLocal]
    /\ UNCHANGED <<lkFile, lkDone, notLockVars>>

LockStep == \E p \in LockProcs : Acquire(p)
TimeoutStep == \E p \in LockProcs : LockTimesOut(p)
RereadStep == \E p \in LockProcs : Reread(p)
WriteStep == \E p \in LockProcs : WriteBack(p)
ReleaseStep == \E p \in LockProcs : Release(p)

NextLock ==
    \/ ConsumerApply
    \/ RequestAddPost
    \/ RequestRemovePost
    \/ RequestView
    \/ LockStep
    \/ TimeoutStep
    \/ RereadStep
    \/ WriteStep
    \/ ReleaseStep

SpecLock == InitLock /\ [][NextLock]_vars

-----------------------------------------------------------------------------
(* Driving the heartbeat file *)

\* a worker begins with no heartbeat file or with the one an earlier run
\* left behind
InitHeartbeat ==
    /\ QueueIdle /\ SupIdle /\ EngineIdle /\ CallIdle /\ WindowIdle /\ StoreIdle
    /\ HealthIdle /\ ValidationIdle /\ OrderIdle /\ MergeCallIdle
    /\ AccountsIdle /\ LockIdle
    /\ hbFile \in {MissingFile, FileText("json", [EmptyRecord EXCEPT !["parser"] = 0 - 1,
                                                                   !["response"] = 0 - 1,
                                                                   !["updated_at_utc"] = 0 - 1])}
    /\ hbTemp = MissingFile
    /\ hbProc = Worker("idle", ReadRecord(hbFile), ReadRecord(hbFile), 0)
    /\ hbSeen = EmptyRecord

\* _health_update 50-60: the old record is read and the kwargs laid over it
HealthRead ==
    /\ hbProc.pc = "idle"
    /\ hbProc.n < MaxHeartbeats
    /\ \E group \in FieldGroups :
          LET payload == ReadRecord(hbFile)
          IN  hbProc' = Worker("mkstemp", payload,
                               Updated(payload, group, hbProc.n + 1), hbProc.n + 1)
    /\ UNCHANGED <<hbFile, hbTemp, hbSeen, notHeartbeatVars>>

\* _health_update 61-65: the temp file is created, empty
HealthMkstemp ==
    /\ hbProc.pc = "mkstemp"
    /\ hbTemp' = CutFile
    /\ hbFile' = Visible(hbFile, hbTemp')
    /\ hbProc' = [hbProc EXCEPT !.pc = "write"]
    /\ UNCHANGED <<hbSeen, notHeartbeatVars>>

\* _health_update 67-68: the record is written to the temp file
HealthWrite ==
    /\ hbProc.pc = "write"
    /\ hbTemp' = FileText("json", hbProc.payload)
    /\ hbFile' = Visible(hbFile, hbTemp')
    /\ hbProc' = [hbProc EXCEPT !.pc = "replace"]
    /\ UNCHANGED <<hbSeen, notHeartbeatVars>>

\* _health_update 69: os.replace puts the temp file in the record's place
HealthReplace ==
    /\ hbProc.pc = "replace"
    /\ hbFile' = hbTemp
    /\ hbTemp' = MissingFile
    /\ hbProc' = [hbProc EXCEPT !.pc = "idle"]
    /\ UNCHANGED <<hbSeen, notHeartbeatVars>>

\* parsers_bridge.py 222-248: the supervisor kills the worker wherever it
\* stands; a temp file stays behind under its own name and the next worker
\* process starts afresh
WorkerKilled ==
    /\ hbProc.pc # "idle"
    /\ hbProc' = Worker("idle", ReadRecord(hbFile), ReadRecord(hbFile), hbProc.n)
    /\ hbTemp' = MissingFile
    /\ UNCHANGED <<hbFile, hbSeen, notHeartbeatVars>>

\* parsers_bridge.py 149 and 107-113: the watchdog reads the record
WatchdogReads ==
    /\ hbSeen' = ReadRecord(hbFile)
    /\ hbSeen' # hbSeen
    /\ UNCHANGED <<hbFile, hbTemp, hbProc, notHeartbeatVars>>

NextHeartbeat ==
    \/ HealthRead
    \/ HealthMkstemp
    \/ HealthWrite
    \/ HealthReplace
    \/ WorkerKilled
    \/ WatchdogReads

SpecHeartbeat == InitHeartbeat /\ [][NextHeartbeat]_vars

\* every script is in place and every kind has tasks, whenever a step
\* looks; the heartbeat record is missing or fresh
GoodReads ==
    {Reads(TRUE, TRUE, record) : record \in {NoHealth, HealthRecord(TRUE, now, now)}}

NextSupLive ==
    \/ \E action \in Actions : WebCall(action)
    \/ \E r \in GoodReads : WebStep(r)
    \/ WatchdogTick
    \/ \E r \in GoodReads : WatchdogStep(r)
    \/ \E d \in WatchdogSleeps : WatchdogSleep(d)
    \/ \E k \in Kinds : ProcessExit(k)
    \/ \E k \in Kinds : OrphanExit(k)

\* the watchdog is a thread of its own and a request runs on its own thread:
\* a step either of them can take is taken in the end
SpecSupLive ==
    /\ InitSup
    /\ [][NextSupLive]_vars
    /\ WF_vars(WatchdogTick)
    /\ WF_vars(\E r \in GoodReads : WatchdogStep(r))
    /\ WF_vars(\E d \in WatchdogSleeps : WatchdogSleep(d))
    /\ WF_vars(\E r \in GoodReads : WebStep(r))

-----------------------------------------------------------------------------
(* Merge engine: properties *)

\* the instants of a timeline's points, in order
Instants(timeline) ==
    [i \in 1..Len(timeline) |-> Instant(_parse_ts(timeline[i].ts_utc))]

StrictlyIncreasing(timeline) ==
    \A i \in 1..(Len(timeline) - 1) :
        Instants(timeline)[i] < Instants(timeline)[i + 1]

\* two entries that normalisation keeps under one timestamp with two values
Conflict(a, b) ==
    /\ a.isdict /\ b.isdict
    /\ _parse_ts(a.ts_utc).ok
    /\ isoformat(_parse_ts(a.ts_utc)) = isoformat(_parse_ts(b.ts_utc))
    /\ a.m # b.m

\* C7: timeline merge is associative and idempotent, and merging two
\* timelines gives the normalisation of their concatenation: for the
\* timelines A, B, C at hand, merge(merge(A, B), C) = merge(A, merge(B, C)),
\* merge(A, A) = normalize_timeline(A), merge(A, B) = normalize_timeline(A ++ B),
\* where merge(A, B) is what the merge that ran returned.
C7_MergeAssociativeIdempotent ==
    lastOp = "merge" =>
        /\ MergeTimeline(outTl, tlC) = MergeTimeline(tlA, MergeTimeline(tlB, tlC))
        /\ MergeTimeline(tlA, tlA) = _normalize_timeline(tlA)
        /\ outTl = _normalize_timeline(tlA \o tlB)

\* C7 happens: a merge ran on three non-empty timelines, two of which hold
\* different values under one timestamp
C7_Witness ==
    /\ lastOp = "merge"
    /\ Len(tlA) = 1 /\ Len(tlB) = 1 /\ Len(tlC) = 1
    /\ Conflict(tlA[1], tlB[1])
    /\ Len(outTl) = 1

\* C8: timeline merge is commutative, also for timelines that hold different
\* values under one timestamp: merge(A, B) = merge(B, A).
C8_MergeCommutative ==
    lastOp = "merge" => outTl = MergeTimeline(tlB, tlA)

\* C9: a timeline that normalize_timeline returns is ordered by time and has
\* no two points of one absolute instant, whatever offsets the input
\* timestamps carry: its instants are strictly increasing.
C9_NormalizedStrictlyIncreasing ==
    lastOp = "normalize" => StrictlyIncreasing(outTl)

\* the worked example of the hourly computation: 10 at t0, 20 at t0 + 70 min,
\* 35 at t0 + 130 min, tracking started at t0 = 0
ExampleTimeline ==
    <<RawPoint(ZTs(0), IntVal(10)),
      RawPoint(ZTs(70 * 60), IntVal(20)),
      RawPoint(ZTs(130 * 60), IntVal(35))>>

ExampleRan ==
    lastOp = "hourly" /\ tlA = ExampleTimeline /\ startTs = Dt(0, 0)

\* C10 as stated: on the worked example, hour 1 has delta 10 and hour 2 has
\* delta 15.
C10_AsStated ==
    ExampleRan => outRows[1].delta = 10 /\ outRows[2].delta = 15

\* C10 amended: on the worked example _compute_hourly_metric gives 24 rows
\* numbered 1..24; hour 1 (up to t0 + 60 min, where the value is still 10)
\* has delta 0, hour 2 has delta 10 = 20 - 10, hour 3 has delta 15 = 35 - 20,
\* and every later hour has delta 0.
C10_ExampleDeltas ==
    ExampleRan =>
        /\ Len(outRows) = TRACK_HOURS
        /\ \A h \in 1..TRACK_HOURS :
              /\ outRows[h].hour = h
              /\ outRows[h].delta =
                    CASE h = 2 -> 10
                      [] h = 3 -> 15
                      [] OTHER -> 0

\* C10 happens: the hourly computation ran on the worked example
C10_Witness ==
    ExampleRan /\ Len(outRows) = TRACK_HOURS /\ outRows[3].delta = 15

-----------------------------------------------------------------------------
(* Intake queue: properties *)

RecognizedTypes == {"accounts_stats_batch", "posts_stats_batch"}

\* an object of a recognized type whose stats map keeps at least one entry
WellFormed(event) ==
    /\ event.isdict
    /\ StripType(event.type) \in RecognizedTypes
    /\ _normalize_stats_map(event.stats_by_url) # {}

\* C4: with capacity N = _QUEUE_SIZE >= 1, a well-formed submission made
\* while N events are pending is answered (False, queue_full) and leaves the
\* queue as it was; one made while fewer than N are pending, as after the
\* consumer took one, is answered (True, queued) and is appended.
C4_QueueFullAtCapacity ==
    [][\A event \in Events :
          Submit(event) /\ WellFormed(event) =>
              IF Len(eventQueue) >= _QUEUE_SIZE
              THEN /\ subResult' = Result(FALSE, "queue_full")
                   /\ eventQueue' = eventQueue
              ELSE /\ subResult' = Result(TRUE, "queued")
                   /\ eventQueue' = Append(eventQueue, event)]_vars

\* C4 happens: N events are pending and the last submission was turned away
\* as queue_full
C4_Witness ==
    /\ Len(eventQueue) = _QUEUE_SIZE
    /\ subResult = Result(FALSE, "queue_full")

\* C5: in every reachable state the queue holds at most N = _QUEUE_SIZE
\* events (N >= 1), whatever the order of submissions and consumer steps.
C5_QueueBounded ==
    Len(eventQueue) <= _QUEUE_SIZE

\* C5 happens: the queue is full while the consumer is applying an event it
\* took earlier
C5_Witness ==
    /\ Len(eventQueue) = _QUEUE_SIZE
    /\ workerTask = "running"
    /\ inflight # <<>>

\* C6: a malformed submission never enters the queue. An object whose type,
\* blanks stripped, is not recognized is answered invalid_type; one of a
\* recognized type whose stats map keeps no entry is answered empty_stats;
\* both leave the queue as it was, and every queued event is well-formed.
C6_MalformedNeverQueued ==
    /\ [](\A i \in 1..Len(eventQueue) : WellFormed(eventQueue[i]))
    /\ [][\A event \in Events :
            Submit(event) /\ event.isdict /\ ~WellFormed(event) =>
                /\ eventQueue' = eventQueue
                /\ subResult' =
                      IF StripType(event.type) \notin RecognizedTypes
                      THEN Result(FALSE, "invalid_type")
                      ELSE Result(FALSE, "empty_stats")]_vars

\* C6 happens: a submission was turned away as empty_stats while accepted
\* events are pending
C6_Witness ==
    /\ subResult = Result(FALSE, "empty_stats")
    /\ eventQueue # <<>>

-----------------------------------------------------------------------------
(* Supervisor: properties *)

\* the step is the request thread's or the watchdog's start(k) up to its
\* decision to spawn
StartCheckStep(k) ==
    \/ /\ webTodo # <<>>
       /\ webTodo' # webTodo
       /\ Head(webTodo) = Op("start_check", k, 0)
    \/ /\ wdTodo # <<>>
       /\ wdTodo' # wdTodo
       /\ Head(wdTodo) = Op("start_check", k, 0)

\* the steps the caller that moved has left
TodoLeft == IF webTodo' # webTodo THEN webTodo' ELSE wdTodo'
TodoWas == IF webTodo' # webTodo THEN webTodo ELSE wdTodo

\* C1: while the callers take turns, start(kind) spawns nothing when an
\* instance is live. A start that finds the handle running or a matching
\* process only sets the expected flag and fills in a missing start time
\* (and makes sure the watchdog runs): handle, processes, log handle and clock
\* stay as they were and no spawn follows. And the number of live processes
\* of a kind never grows in a state where one is live.
C1_NoSpawnWhenLive ==
    [][\A k \in Kinds :
          /\ StartCheckStep(k) /\ parser_running(SupState, k) =>
                /\ process' = process
                /\ orphans' = orphans
                /\ logHandle' = logHandle
                /\ now' = now
                /\ expectedRunning' = [expectedRunning EXCEPT ![k] = TRUE]
                /\ startedAt' = [startedAt EXCEPT
                                    ![k] = IF @ = NoTime THEN now ELSE @]
                /\ TodoLeft = Tail(TodoWas)
          /\ LiveProcesses(SupState, k)' > LiveProcesses(SupState, k) =>
                LiveProcesses(SupState, k) = 0]_vars

\* C1 happens: a start found a process no handle holds; the kind is expected
\* and has a start time, and there is still only that one process
C1_Witness ==
    \E k \in Kinds :
        /\ calls > 0
        /\ webTodo = <<>>
        /\ orphans[k] = 1
        /\ process[k] = "none"
        /\ expectedRunning[k]
        /\ startedAt[k] # NoTime

\* C2: in every reachable state, also when the watchdog thread and the
\* request thread interleave between the liveness check and the spawn, at
\* most one process of a kind is live, held by the handle or not.
C2_AtMostOneLive ==
    \A k \in Kinds : LiveProcesses(SupState, k) <= 1

\* the step is the watchdog's check of kind k
EnsureStep(k) ==
    /\ wdTodo # <<>>
    /\ wdTodo' # wdTodo
    /\ Head(wdTodo) = Op("wd_ensure", k, 0)

\* a record whose last response is older than the timeout at time t
ResponseTimedOut(record, t) ==
    /\ record.present
    /\ record.last_response_ts_utc # NoTime
    /\ t - record.last_response_ts_utc > HEALTH_TIMEOUT_SEC

\* the restart of kind k, as the watchdog's next steps
RestartAhead(k, todo) ==
    /\ Len(todo) >= Len(RestartOps(k))
    /\ SubSeq(todo, 1, Len(RestartOps(k))) = RestartOps(k)

-----------------------------------------------------------------------------
(* Tracking window: properties *)

WinStart == Instant(_parse_ts(winIn.started_at_utc))
WinHistory == winOut.history_24h

\* C11: update_history on a window with a resolvable start sets ready_hours
\* to the whole hours elapsed since the start, clamped to 0..24, stores for
\* every tracked metric exactly ready_hours rows numbered 1..ready_hours,
\* sets finalized exactly when ready_hours is 24, and records completed_at =
\* start + 24h exactly when finalized.
C11_UpdateHistory ==
    (winOp = "first" /\ _parse_ts(winIn.started_at_utc).ok) =>
        LET elapsed == Instant(winNow) - WinStart
            ready == WinHistory.ready_hours
        IN /\ WinHistory.present
           /\ ready \in 0..24
           /\ ready < 24 => elapsed < (ready + 1) * 3600
           /\ ready > 0 => elapsed >= ready * 3600
           /\ \A x \in MetricNames :
                 /\ Len(WinHistory.metrics[x]) = ready
                 /\ \A i \in 1..ready : WinHistory.metrics[x][i].hour = i
           /\ WinHistory.finalized <=> ready = 24
           /\ WinHistory.has_completed_at <=> WinHistory.finalized
           /\ WinHistory.finalized =>
                 Instant(_parse_ts(WinHistory.completed_at_utc)) = WinStart + 24 * 3600

\* the call made one second after the window's end
C11_Witness ==
    /\ winOp = "first"
    /\ _parse_ts(winIn.started_at_utc).ok
    /\ Instant(winNow) - WinStart = 24 * 3600 + 1
    /\ WinHistory.ready_hours = 24
    /\ WinHistory.finalized
    /\ Instant(_parse_ts(WinHistory.completed_at_utc)) = WinStart + 24 * 3600

\* C12: a finalized window is immutable: once history_24h is finalized, a
\* further update_history call with a later now leaves every stored field of
\* the window as it was.
C12_FinalizedImmutable ==
    [][(winOp = "first" /\ winOut.history_24h.finalized)
        => winOut'.history_24h = winOut.history_24h]_vars

-----------------------------------------------------------------------------
(* Store: properties *)

\* C13: for every tracked post in every owning document the persisted
\* ready_hours is within 0..24 and, while the post stays subscribed, never
\* decreases from one batch application to the next (the clock does not run
\* backwards).
C13_ReadyHoursMonotone ==
    [][\A o \in OwnerSet :
          LET before == docs[o].tracking.history_24h
              after == docs'[o].tracking.history_24h
          IN /\ after.ready_hours \in 0..24
             /\ (docs[o].subscribed /\ before.present) =>
                    (after.present /\ after.ready_hours >= before.ready_hours)]_vars

\* a subscribed post whose window has filled up over several batches
C13_Witness ==
    /\ applies >= 2
    /\ \E o \in OwnerSet :
          /\ docs[o].subscribed
          /\ docs[o].tracking.history_24h.present
          /\ docs[o].tracking.history_24h.ready_hours = 24

\* a batch that carries a fetch time is applied once more
Redelivery == lastSnap.has_fetched_at /\ \E d \in ClockSteps : ApplyAgain(d)

\* C20 as stated: applying the same post batch a second time leaves every
\* owning document's started_at and timeline identical to what the first
\* application left.
C20_AsStated ==
    [][Redelivery =>
        \A o \in OwnerSet :
            /\ docs'[o].tracking.started_at_utc = docs[o].tracking.started_at_utc
            /\ docs'[o].tracking.timeline = docs[o].tracking.timeline]_vars

\* C20, amended: applying the same post batch a second time leaves every
\* owning document's timeline identical and its started_at at the same
\* instant (the text of started_at may be rewritten in isoformat).
C20_RedeliveryHarmless ==
    [][Redelivery =>
        \A o \in OwnerSet :
            /\ _parse_ts(docs'[o].tracking.started_at_utc)
                   .ok = _parse_ts(docs[o].tracking.started_at_utc).ok
            /\ Instant(_parse_ts(docs'[o].tracking.started_at_utc))
                   = Instant(_parse_ts(docs[o].tracking.started_at_utc))
            /\ docs'[o].tracking.timeline = docs[o].tracking.timeline]_vars

\* a batch stamped with a Z time has been applied twice, half a day apart
C20_Witness ==
    /\ storeOp = "again"
    /\ lastSnap.has_fetched_at
    /\ lastSnap.fetched_at_utc.kind = "Z"
    /\ clock > lastSnap.fetched_at_utc.local
    /\ \E o \in OwnerSet : docs[o].subscribed /\ docs[o].tracking.timeline # <<>>

-----------------------------------------------------------------------------
(* Heartbeat classifier: properties *)

\* what the file says, read without the program's parser: whether the
\* timestamp is there and readable, and its age in seconds
Readable(ts) == ts.kind \in {"Z", "naive", "offset"}
AgeOf(ts) == hcNow - (ts.local - (IF ts.kind = "offset" THEN ts.off ELSE 0))

InGrace == hcStarted # NoTime /\ hcNow - hcStarted < 90
RecordMissing == hcHealth.kind # "dict"
NoRequest == ~Readable(hcHealth.last_request_ts_utc)
RequestLate == AgeOf(hcHealth.last_request_ts_utc) > 5 * 60
NoResponse == ~Readable(hcHealth.last_response_ts_utc)
ResponseLate == AgeOf(hcHealth.last_response_ts_utc) > 5 * 60

ReferenceVerdict ==
    IF InGrace THEN <<FALSE, "">>
    ELSE IF RecordMissing THEN <<TRUE, "health_missing">>
    ELSE IF NoRequest THEN <<TRUE, "no_request">>
    ELSE IF RequestLate THEN <<TRUE, "request_timeout">>
    ELSE IF NoResponse THEN <<TRUE, "no_response">>
    ELSE IF ResponseLate THEN <<TRUE, "response_timeout">>
    ELSE <<FALSE, "">>

\* C14: the health classifier equals the reference for every record, start
\* time and now: not stale inside the 90 s startup grace period whatever the
\* record holds; otherwise stale exactly when the record is missing, the
\* request timestamp is missing or unparsable or older than 5 min, or the
\* response timestamp is missing or unparsable or older than 5 min, with the
\* reason naming the first of these that holds; not stale with an empty
\* reason in all other cases.
C14_HealthClassifier ==
    hcOut # <<FALSE, "not called">> =>
        /\ hcOut = ReferenceVerdict
        /\ InGrace => hcOut = <<FALSE, "">>
        /\ ~InGrace =>
              (hcOut[1] <=> (RecordMissing \/ NoRequest \/ RequestLate
                             \/ NoResponse \/ ResponseLate))
        /\ ~hcOut[1] => hcOut[2] = ""

\* past the grace period, a request on time and a response exactly 5 min old
\* (not stale), and one a second older (stale)
C14_Witness ==
    /\ hcOut # <<FALSE, "not called">>
    /\ ~InGrace /\ ~RecordMissing /\ ~NoRequest /\ ~RequestLate /\ ~NoResponse
    /\ \/ AgeOf(hcHealth.last_response_ts_utc) = 5 * 60 /\ hcOut = <<FALSE, "">>
       \/ AgeOf(hcHealth.last_response_ts_utc) = 5 * 60 + 1 /\ hcOut = <<TRUE, "response_timeout">>

-----------------------------------------------------------------------------
(* Consumer: properties *)

FailStep == \E error \in ApplyErrors : ApplyFail(error)

\* the last apply failed, the consumer has not been told to stop, and e is
\* the next event in the queue
NextAfterFailure(e) ==
    /\ lastError # ""
    /\ workerTask = "running"
    /\ ~stopEvent
    /\ IF eventQueue = <<>> THEN FALSE ELSE Head(eventQueue) = e

\* C15: a failed apply does not stop the consumer: the error is recorded in
\* last_error, the event is marked done, the consumer is back at the head of
\* its loop with the queue as it was, and it goes on to take the event queued
\* next (unless it is told to stop first).
C15_FailureIsolated ==
    /\ [][FailStep =>
            /\ lastError' \in ApplyErrors
            /\ inflight' = <<>>
            /\ workerTask' = "running"
            /\ workerPc' = "check"
            /\ eventQueue' = eventQueue]_vars
    /\ \A e \in Events : NextAfterFailure(e) ~> (inflight = <<e>> \/ stopEvent)

\* after a failure the consumer is applying the event that followed
C15_Witness ==
    /\ lastError # ""
    /\ workerTask = "running"
    /\ workerPc = "apply"
    /\ inflight # <<>>

AliveConsumers == (IF workerTask = "running" THEN 1 ELSE 0) + strayWorkers

\* C16: shutdown never interrupts a write: an apply in flight ends only by
\* completing, the consumer leaves its loop only between applies, and stop
\* returns only after the consumer task has finished: whenever no task is
\* held (stop has returned), no apply is running and no consumer is alive.
C16_StopWaitsForApply ==
    /\ [](workerTask = "none" => (inflight = <<>> /\ AliveConsumers = 0))
    /\ [][(inflight # <<>> /\ inflight' # inflight) => ApplyEnds]_vars
    /\ [][(workerTask = "running" /\ workerTask' # "running")
            => (stopEvent /\ inflight = <<>>)]_vars
    /\ [][StopJoin => (workerTask = "done" /\ inflight = <<>>)]_vars

\* stop has been called while an apply is in flight
C16_Witness ==
    /\ stopEvent
    /\ workerTask = "running"
    /\ workerPc = "apply"
    /\ inflight # <<>>

\* C17: there is a single writer: at most one consumer task is alive and at
\* most one apply is in flight at any time, under any sequence of start and
\* stop calls and any submissions; a start while the consumer is running
\* creates no second consumer and changes nothing.
C17_SingleWriter ==
    /\ [](/\ AliveConsumers <= 1
          /\ Len(inflight) <= 1
          /\ inflight # <<>> => (workerTask = "running" /\ workerPc = "apply"))
    /\ [][(StartWorker /\ workerTask = "running")
            => (startResult' = "kept"
                /\ UNCHANGED <<workerTask, workerPc, stopEvent, strayWorkers, inflight,
                               eventQueue>>)]_vars

\* start has been called on a running consumer, which is applying an event
C17_Witness ==
    /\ startResult = "kept"
    /\ workerTask = "running"
    /\ inflight # <<>>

-----------------------------------------------------------------------------
(* Supervisor: spawn failures and repeated calls *)

\* C18: a spawn failure is not fatal and is retried on every watchdog tick,
\* also when the very first start of the kind is the one that failed: a kind
\* that is expected running has the watchdog, which does the retrying,
\* running.
C18_ExpectedIsWatched ==
    (webTodo = <<>> /\ \E k \in Kinds : expectedRunning[k]) => watchdogStarted

\* what C19 compares: the expected flags, the handles and the live instances
SupView(s) ==
    [expectedRunning |-> s.expectedRunning,
     process |-> s.process,
     live |-> [k \in Kinds |-> LiveProcesses(s, k)]]

\* the last two calls are the same call, made back to back
SameCallTwice ==
    /\ Len(callLog) = 2
    /\ callLog[2].action = callLog[1].action
    /\ callLog[2].exists = callLog[1].exists
    /\ callLog[2].before = callLog[1].after

\* C19: control actions are idempotent on the supervisor's state: from any
\* state, start_<kind>, stop_<kind>, start_all or stop_all performed twice
\* leaves the expected flags, the owned handles and the number of live
\* instances as performing it once does.
C19_ControlIdempotent ==
    SameCallTwice => SupView(callLog[2].after) = SupView(callLog[1].after)

\* start_all made twice where the first call spawned a worker
C19_Witness ==
    /\ SameCallTwice
    /\ callLog[1].action = "start_all"
    /\ \E k \in Kinds :
          /\ LiveProcesses(callLog[1].before, k) = 0
          /\ LiveProcesses(callLog[1].after, k) = 1
          /\ LiveProcesses(callLog[2].after, k) = 1

-----------------------------------------------------------------------------
(* Hourly computation: the reference *)

\* positions of the points observed at or before target with a known value
KnownUpTo(timeline, target_ts, metric) ==
    {i \in 1..Len(timeline) :
        /\ timeline[i].isdict
        /\ _parse_ts(timeline[i].ts_utc).ok
        /\ Instant(_parse_ts(timeline[i].ts_utc)) <= Instant(target_ts)
        /\ timeline[i].m[metric].isint}

\* the last of them: the latest instant, and the later entry among equals
LastKnown(timeline, target_ts, metric) ==
    LET K == KnownUpTo(timeline, target_ts, metric) IN
    CHOOSE i \in K : \A j \in K :
        LET ti == Instant(_parse_ts(timeline[i].ts_utc))
            tj == Instant(_parse_ts(timeline[j].ts_utc))
        IN tj < ti \/ (tj = ti /\ j <= i)

RECURSIVE RefValue(_, _, _, _)
RefValue(timeline, start_ts, metric, h) ==
    LET target_ts == AddSeconds(start_ts, h * HOUR_SEC) IN
    IF KnownUpTo(timeline, target_ts, metric) # {}
    THEN timeline[LastKnown(timeline, target_ts, metric)].m[metric].v
    ELSE IF h = 0 THEN 0 ELSE RefValue(timeline, start_ts, metric, h - 1)

RefRowsOk(rows, timeline, start_ts, metric) ==
    /\ Len(rows) = TRACK_HOURS
    /\ \A h \in 1..TRACK_HOURS :
          /\ rows[h].hour = h
          /\ rows[h].delta = RefValue(timeline, start_ts, metric, h)
                             - RefValue(timeline, start_ts, metric, h - 1)

\* every entry has a readable timestamp and the entries are in time order,
\* as _normalize_timeline returns them
InTimeOrder(timeline) ==
    /\ \A i \in 1..Len(timeline) :
          timeline[i].isdict /\ _parse_ts(timeline[i].ts_utc).ok
    /\ \A i, j \in 1..Len(timeline) :
          i < j => Instant(_parse_ts(timeline[i].ts_utc))
                   <= Instant(_parse_ts(timeline[j].ts_utc))

-----------------------------------------------------------------------------
(* Startup validation: properties *)

ValidateStep == valOp = "none" /\ valOp' = "validated"

\* what the validation is to do with one path of the store directory
Handled(f) ==
    CASE userDir[f] = Absent -> userDir'[f] = Absent
      [] userDir[f].kind = "object" -> userDir'[f] = userDir[f]
      [] backupDir[f].kind = "object" -> userDir'[f] = backupDir[f]
      [] OTHER -> /\ userDir'[f] = Absent
                  /\ <<f, userDir[f]>> \in invalidDir'

\* C22: after validate_json_bd_on_startup no document that is not a JSON
\* object is left in the store: each one is replaced by its backup when the
\* backup is a JSON object and is otherwise moved to the quarantine
\* directory; documents that were objects are unchanged; and the report has
\* total = ok + restored + invalid.
C22_NoCorruptLeft ==
    [][ValidateStep =>
          /\ \A f \in FileNames : Handled(f)
          /\ \A f \in FileNames : userDir'[f].kind \in {"absent", "object"}
          /\ report'.total = report'.ok + report'.restored + report'.invalid
      ]_vars

-----------------------------------------------------------------------------
(* Arrival order: properties *)

\* what a document persists about the post
PostState(doc) ==
    [started_at |-> doc.tracking.started_at_utc,
     timeline |-> doc.tracking.timeline,
     hourly |-> doc.tracking.history_24h.metrics,
     views |-> doc.snapshot.views,
     fetched_at |-> doc.snapshot.fetched_at_utc]

\* C21: two snapshots S1, S2 of one post with fetch times t1 < t2, applied
\* as S1 then S2 or as S2 then S1 from the same store, leave the same
\* persisted state for the post in every subscribed document: same
\* started_at, timeline, hourly rows and current snapshot values.
C21_OrderHarmless ==
    ordStep = 2 =>
        \A o \in OwnerSet :
            ordDocs[o].subscribed => PostState(ordDocs[o]) = PostState(revDocs[o])

-----------------------------------------------------------------------------
(* Store: the 24 h horizon *)

HorizonOf(tracking) == Instant(_parse_ts(tracking.started_at_utc)) + DAY_SEC

WithinHorizon(tracking) ==
    \A i \in 1..Len(tracking.timeline) :
        /\ _parse_ts(tracking.timeline[i].ts_utc).ok
        /\ Instant(_parse_ts(tracking.timeline[i].ts_utc)) <= HorizonOf(tracking)

BatchApplied == applies' = applies + 1

\* the document holds a snapshot fetched after the end of its window
FetchedPastHorizon(doc) ==
    /\ doc.subscribed
    /\ doc.snapshot.present
    /\ _parse_ts(doc.snapshot.fetched_at_utc).ok
    /\ Instant(_parse_ts(doc.snapshot.fetched_at_utc)) > HorizonOf(doc.tracking)

\* C27: after any sequence of post batches every point of a persisted
\* timeline is no later than the window's started_at + 24 h (and every
\* window written by a batch has a readable started_at); a batch whose
\* snapshot was fetched after the horizon still becomes the document's
\* current snapshot.
C27_WithinHorizon ==
    /\ [](\A o \in OwnerSet :
            /\ _parse_ts(docs[o].tracking.started_at_utc).ok =>
                   WithinHorizon(docs[o].tracking)
            /\ (docs[o].subscribed /\ storeOp # "none") =>
                   _parse_ts(docs[o].tracking.started_at_utc).ok)
    /\ [][BatchApplied =>
            \A o \in OwnerSet :
                docs[o].subscribed =>
                    /\ docs'[o].snapshot = lastSnap'
                    /\ docs'[o].subscribed]_vars

\* C27 happens: a snapshot fetched 26 h after the start is the current
\* snapshot of a document whose timeline ends before it
C27_Witness ==
    \E o \in OwnerSet :
        /\ FetchedPastHorizon(docs[o])
        /\ docs[o].snapshot = lastSnap
        /\ Len(docs[o].tracking.timeline) > 0
        /\ WithinHorizon(docs[o].tracking)

-----------------------------------------------------------------------------
(* Store: windows without a start *)

Resolvable(tracking) == _parse_ts(tracking.started_at_utc).ok

\* no document holds a readable start for the post
NoStartKnown == \A o \in OwnerSet : ~Resolvable(docs[o].tracking)

\* C28 (batch path): a window with no resolvable start is skipped, not
\* guessed: when no document holds a readable start for the post, a batch
\* leaves a document's existing window without a start.
C28_NoInventedStart ==
    [][(BatchApplied /\ NoStartKnown) =>
          \A o \in OwnerSet :
              Len(docs[o].tracking.timeline) > 0 =>
                  ~Resolvable(docs'[o].tracking)]_vars

-----------------------------------------------------------------------------
(* Store: convergence of the documents *)

Subscribers == {o \in OwnerSet : docs[o].subscribed}

\* the earliest start any document held before the batch
EarliestKnown ==
    LET K == {o \in OwnerSet : Resolvable(docs[o].tracking)} IN
    CHOOSE t \in {Instant(_parse_ts(docs[o].tracking.started_at_utc)) : o \in K} :
        \A o \in K : t <= Instant(_parse_ts(docs[o].tracking.started_at_utc))

\* C30: after one post batch every document subscribed to the post holds
\* the same started_at, which is the earliest start any document held, and
\* the same timeline, whatever the documents held before.
C30_Converged ==
    [][BatchApplied =>
          /\ \A a, b \in Subscribers :
                /\ docs'[a].tracking.started_at_utc = docs'[b].tracking.started_at_utc
                /\ docs'[a].tracking.timeline = docs'[b].tracking.timeline
          /\ ~NoStartKnown =>
                \A a \in Subscribers :
                    Instant(_parse_ts(docs'[a].tracking.started_at_utc)) = EarliestKnown
      ]_vars

-----------------------------------------------------------------------------
(* Reconciliation: which window is canonical *)

BaseRank == _tracking_rank(_normalize_tracking(mtBase))
ExtraRank == _tracking_rank(_normalize_tracking(mtExtra))

\* C29: the window whose history_24h is carried into the merge result is the
\* one of lowest rank under (start ascending, finalized first, longer
\* timeline first); in particular an earlier-started window wins over a
\* later-started one whatever their finalization and timeline length.
C29_CanonicalByRank ==
    (mtOp = "merged" /\ mtBase.history_24h.present /\ mtExtra.history_24h.present) =>
        /\ RankLess(ExtraRank, BaseRank) => mtOut.history_24h = mtExtra.history_24h
        /\ RankLess(BaseRank, ExtraRank) => mtOut.history_24h = mtBase.history_24h

-----------------------------------------------------------------------------
(* Supervisor: rotation and stop *)

\* the step is the watchdog's rotation check of kind k
RotateStep(k) ==
    /\ wdTodo # <<>>
    /\ wdTodo' # wdTodo
    /\ Head(wdTodo) = Op("wd_rotate", k, 0)

\* the recorded start of kind k is at least the rotation interval old
Aged(k) ==
    /\ Truthy(startedAt[k])
    /\ wdNow - startedAt[k] >= RESTART_INTERVAL_SEC

\* the pause and the start of kind k, as the watchdog's next steps
RotationAhead(k, todo) ==
    /\ Len(todo) >= 2
    /\ todo[1] = Op("sleep", k, RESTART_PAUSE_SEC)
    /\ todo[2] = Op("start_check", k, 0)

\* C25: on every watchdog iteration a live worker of a kind whose recorded
\* start is at least RESTART_INTERVAL_SEC old is force-restarted (terminated,
\* then the pause, then started again), whether it is held by the owned
\* handle or was found among the processes of the system.
C25_RotatesEveryLive ==
    [][\A k \in Kinds :
          (RotateStep(k) /\ parser_running(SupState, k) /\ Aged(k)) =>
              /\ process'[k] = "none"
              /\ startedAt'[k] = NoTime
              /\ orphans'[k] = 0
              /\ RotationAhead(k, wdTodo')]_vars

\* a caller takes the step op of kind k
CallerStep(op, k) ==
    \/ /\ webTodo # <<>>
       /\ Head(webTodo) = Op(op, k, 0)
       /\ webTodo' = Tail(webTodo)
    \/ /\ wdTodo # <<>>
       /\ Head(wdTodo) = Op(op, k, 0)
       /\ wdTodo' = Tail(wdTodo)

OtherKindUntouched(k) ==
    \A j \in Kinds \ {k} :
        /\ expectedRunning'[j] = expectedRunning[j]
        /\ process'[j] = process[j]
        /\ startedAt'[j] = startedAt[j]
        /\ logHandle'[j] = logHandle[j]

\* C26: when stop(kind) returns, the kind's expected flag is false, its
\* handle and recorded start time are cleared, no process of the kind is
\* left alive, its log handle is closed and cleared, and the other kind's
\* flag, handle, start time and log handle are as they were.
C26_StopClears ==
    [][\A k \in Kinds :
          /\ CallerStep("stop_terminate", k) => OtherKindUntouched(k)
          /\ CallerStep("stop_sweep", k) =>
                /\ OtherKindUntouched(k)
                /\ ~expectedRunning'[k]
                /\ process'[k] = "none"
                /\ startedAt'[k] = NoTime
                /\ orphans'[k] = 0
                /\ ~logHandle'[k]]_vars

-----------------------------------------------------------------------------
(* Supervisor: a worker that is down *)

Down(k) == ~parser_running(SupState, k)

\* the watchdog still has an iteration to begin
TickToCome == watchdogStarted /\ ticks < TickBudget

\* C24: the watchdog's check of a kind that is expected, has tasks and has
\* no live instance, owned or found among the processes of the system,
\* starts it; a start that finds nothing live and the script in place
\* spawns; and so, with the watchdog running and spawns succeeding, a kind
\* that is expected and down is live again (or is stopped by a caller).
C24_DownIsStarted ==
    /\ [][\A k \in Kinds :
            /\ (EnsureStep(k) /\ expectedRunning[k] /\ Down(k)) =>
                  \A r \in ReadsFor(Head(wdTodo), now) :
                      (r.hasTasks /\ WatchdogStep(r)) =>
                          /\ wdTodo' = StartOps(k) \o Tail(wdTodo)
                          /\ process'[k] = process[k]
            /\ (CallerStep("start_check", k) /\ Down(k)) =>
                  \/ /\ wdTodo' # wdTodo /\ wdTodo' # <<>>
                     /\ Head(wdTodo') = Op("start_spawn", k, 0)
                  \/ /\ webTodo' # webTodo /\ webTodo' # <<>>
                     /\ Head(webTodo') = Op("start_spawn", k, 0)
            /\ CallerStep("start_spawn", k) =>
                  process'[k] = "running" /\ startedAt'[k] = now]_vars
    /\ (Down("posts") /\ expectedRunning["posts"] /\ TickToCome)
           ~> (~Down("posts") \/ ~expectedRunning["posts"])
    /\ (Down("accounts") /\ expectedRunning["accounts"] /\ TickToCome)
           ~> (~Down("accounts") \/ ~expectedRunning["accounts"])

\* C24 happens: a worker the supervisor spawned has exited, was found down
\* by the watchdog and is running again under a new start time
C24_Witness ==
    \E k \in Kinds :
        /\ ticks >= 2
        /\ calls = 1
        /\ webTodo = <<>>
        /\ WdIdle
        /\ expectedRunning[k]
        /\ process[k] = "running"
        /\ startedAt[k] > StartTime
        /\ wdRestartAt[k] = NoTime

-----------------------------------------------------------------------------
(* Consumer: order of application *)

\* a submission was accepted in this step
Accepted(e) == Submit(e) /\ subResult'.ok

\* the consumer took an event off the queue and began to apply it
Dequeued == inflight' # <<>> /\ inflight' # inflight

\* C33: the queue is first in, first out and one event is applied at a time:
\* an accepted submission goes to the tail of the queue, the consumer always
\* takes the head, nothing else changes the queue, and an event is taken
\* only when no apply is in flight (the previous one has returned or raised).
C33_FifoOneAtATime ==
    /\ [][\A e \in Events : Accepted(e) => eventQueue' = Append(eventQueue, e)]_vars
    /\ [][Dequeued =>
            /\ inflight = <<>>
            /\ eventQueue # <<>>
            /\ inflight' = <<Head(eventQueue)>>
            /\ eventQueue' = Tail(eventQueue)]_vars
    /\ [][eventQueue' # eventQueue => (Dequeued \/ \E e \in Events : Accepted(e))]_vars
    /\ [][(inflight # <<>> /\ inflight' = <<>>) => ApplyEnds]_vars
    /\ [](Len(inflight) <= 1)

\* an event is being applied while two different accepted events wait
C33_Witness ==
    /\ inflight # <<>>
    /\ workerPc = "apply"
    /\ Len(eventQueue) >= 2
    /\ eventQueue[1] # eventQueue[2]
    /\ inflight[1] # eventQueue[1]

-----------------------------------------------------------------------------
(* Consumer: termination after stop *)

\* the stop event is set and the consumer task is still in its loop
Stopping == stopEvent /\ workerTask = "running"

\* C34: after the stop event is set the consumer terminates: the event stays
\* set while the task lives, the first time the consumer is at the head of
\* its loop (after the apply in flight has ended, or after the poll timed
\* out) it leaves the loop whether or not events are queued, so the task
\* finishes and stop_parser_event_worker returns; a start after that creates
\* a fresh running consumer with a cleared stop event.
C34_StopTerminates ==
    /\ [][Stopping => (stopEvent' /\ workerTask' # "none")]_vars
    /\ [][(Stopping /\ WorkerCheck) => (workerTask' = "done" /\ eventQueue' = eventQueue)]_vars
    /\ [][(Stopping /\ (WorkerTimeout \/ ApplyEnds)) => workerPc' = "check"]_vars
    /\ Stopping ~> (workerTask = "done")
    /\ StopPending ~> (workerTask = "none")
    /\ [][(StartWorker /\ workerTask = "none") =>
            /\ workerTask' = "running"
            /\ workerPc' = "check"
            /\ ~stopEvent'
            /\ strayWorkers' = 0
            /\ startResult' = "created"]_vars

\* a consumer started again after a stop that found events queued
C34_Witness ==
    /\ workerTask = "running"
    /\ workerPc = "get"
    /\ ~stopEvent
    /\ startResult = "created"
    /\ lastOk
    /\ Len(eventQueue) = _QUEUE_SIZE

-----------------------------------------------------------------------------
(* Consumer: every accepted event is handled *)

\* the submissions that can be accepted
Acceptable == {e \in Events : WellFormed(e)}

\* e waits at place k of the queue of a running consumer not told to stop
Waiting(e, k) ==
    /\ workerTask = "running"
    /\ ~stopEvent
    /\ k <= Len(eventQueue)
    /\ IF k <= Len(eventQueue) THEN eventQueue[k] = e ELSE FALSE

\* an accepted event is in the queue, the consumer takes every waiting event
\* unless it is told to stop, and an event taken is applied once: the end of
\* its apply, returning or raising, puts nothing back
HandledOnce ==
    /\ [][\A e \in Events : Accepted(e) =>
              /\ eventQueue' # <<>>
              /\ eventQueue'[Len(eventQueue')] = e]_vars
    /\ [][ApplyEnds => (inflight' = <<>> /\ eventQueue' = eventQueue)]_vars
    /\ \A e \in Acceptable : \A k \in 1.._QUEUE_SIZE :
            Waiting(e, k) ~> (inflight = <<e>> \/ stopEvent)

\* C38 as stated: every accepted event is handled once, and from the moment
\* the stop event is set the consumer takes nothing more from the queue.
C38_AsStated ==
    /\ HandledOnce
    /\ [][Stopping => ~Dequeued]_vars

\* C38: every accepted event is handled once while the consumer runs and is
\* not told to stop; once the stop event is set, a consumer that is applying
\* an event or is at the head of its loop takes nothing more from the queue,
\* and a consumer that is waiting in the get takes at most one more event.
C38_AcceptedIsHandled ==
    /\ HandledOnce
    /\ [][(Stopping /\ workerPc # "get") => (~Dequeued /\ workerPc' # "get")]_vars
    /\ [][(Stopping /\ Dequeued) => (workerPc = "get" /\ workerPc' = "apply")]_vars

\* the stop event is set, the consumer has left its loop, and events it
\* never took are still in the queue
C38_Witness ==
    /\ stopEvent
    /\ workerTask = "done"
    /\ lastOk
    /\ eventQueue # <<>>

-----------------------------------------------------------------------------
(* Timeline normalisation: what is dropped and what is kept *)

\* the entry is a record whose timestamp can be read
Usable(entry) == entry.isdict /\ _parse_ts(entry.ts_utc).ok

\* the timestamp text a usable entry is stored under
StoredTs(entry) == isoformat(_parse_ts(entry.ts_utc))

\* the value is a JSON integer: a number, not true / false, not a string,
\* not absent
JsonInteger(value) == value.isint /\ "bool" \notin DOMAIN value

\* the last usable entry of the input stored under the timestamp ts
LastWith(raw, ts) ==
    raw[CHOOSE i \in 1..Len(raw) :
            /\ Usable(raw[i]) /\ StoredTs(raw[i]) = ts
            /\ \A j \in (i + 1)..Len(raw) : ~(Usable(raw[j]) /\ StoredTs(raw[j]) = ts)]

\* the output holds one point for each timestamp of a usable entry and no
\* other, and each point has the five tracked metrics, every one of them the
\* value of the last entry of that timestamp when integer(value) holds and
\* unknown otherwise
KeptExactly(raw, out, integer(_)) ==
    /\ {out[i].ts_utc : i \in 1..Len(out)}
           = {StoredTs(raw[i]) : i \in {j \in 1..Len(raw) : Usable(raw[j])}}
    /\ \A i, j \in 1..Len(out) : i # j => out[i].ts_utc # out[j].ts_utc
    /\ \A i \in 1..Len(out) :
          /\ DOMAIN out[i].m = MetricNames
          /\ \A x \in MetricNames :
                LET given == LastWith(raw, out[i].ts_utc).m[x] IN
                out[i].m[x] = IF integer(given) THEN given ELSE NoneVal

\* C35: a parse failure is local to one point: normalize_timeline drops
\* exactly the entries that are not records or whose timestamp cannot be
\* read, keeps one point per timestamp of the others, the later entry of a
\* timestamp winning, and each kept point holds the five tracked metrics
\* and nothing else, a metric that is absent or not an integer being unknown.
C35_ParseFailureLocal ==
    lastOp = "normalize" => KeptExactly(tlA, outTl, JsonInteger)

-----------------------------------------------------------------------------
(* Store: the start of a window *)

StartOf(doc) == _parse_ts(doc.tracking.started_at_utc)

\* the instant the batch's snapshot was fetched when that can be read, else
\* the time of the application
FetchedOrNow ==
    IF lastSnap'.has_fetched_at /\ _parse_ts(lastSnap'.fetched_at_utc).ok
    THEN Instant(_parse_ts(lastSnap'.fetched_at_utc))
    ELSE clock'

\* C39: the start of a tracking window never moves later: a batch leaves
\* every subscribed document with a readable start; a start the document
\* held stays the same instant or becomes earlier; a document without one
\* gets the earliest start any document holds for the post, else the
\* snapshot's fetch time, else the time of the application.
C39_StartNeverLater ==
    [][BatchApplied =>
          \A o \in Subscribers :
              /\ docs'[o].subscribed
              /\ StartOf(docs'[o]).ok
              /\ StartOf(docs[o]).ok =>
                     Instant(StartOf(docs'[o])) <= Instant(StartOf(docs[o]))
              /\ (~StartOf(docs[o]).ok /\ ~NoStartKnown) =>
                     Instant(StartOf(docs'[o])) = EarliestKnown
              /\ NoStartKnown => Instant(StartOf(docs'[o])) = FetchedOrNow]_vars

\* after two applications a document that held a window begun an hour
\* before time 0 holds the start of the other document's older window
C39_Witness ==
    /\ storeOp = "again"
    /\ \A o \in OwnerSet :
          /\ docs[o].subscribed
          /\ StartOf(docs[o]).ok
          /\ Instant(StartOf(docs[o])) = 0 - 2 * HOUR_SEC
    /\ \E o \in OwnerSet : \E i \in 1..Len(docs[o].tracking.timeline) :
          docs[o].tracking.timeline[i].m["views"] = IntVal(6)

-----------------------------------------------------------------------------
(* Supervisor: a stop and the watchdog *)

\* kind k is stopped by request: its expected flag is false, no request
\* that concerns it is under way (the stop has returned, no start or restart
\* has been asked for since), and the watchdog has decided no restart of
\* its own for k, so that the flag is not one its own restart has cleared
StoppedFor(k) ==
    /\ ~expectedRunning[k]
    /\ \A i \in 1..Len(webTodo) : webTodo[i].k # k
    /\ wdRestartAt[k] = NoTime

\* the step is the watchdog thread's
WatchdogActs == wdTodo # <<>> /\ wdTodo' # wdTodo /\ webTodo' = webTodo

\* C37: a stop is not undone by the watchdog: while kind k is stopped, no
\* step of the watchdog thread sets its expected flag, spawns an instance
\* of it or records a start time for it.
C37_StopNotUndone ==
    [][\A k \in Kinds :
          (StoppedFor(k) /\ WatchdogActs) =>
              /\ ~expectedRunning'[k]
              /\ process'[k] = "running" => process[k] = "running"
              /\ startedAt'[k] = startedAt[k] \/ startedAt'[k] = NoTime]_vars

-----------------------------------------------------------------------------
(* Accounts batch: the snapshot is replaced, the history is kept *)

InBatch(stats_by_url, key) == stats_by_url[key].kind # "missing"

\* the stats of every account that the batch lacks or the document does not
\* list, and the lists themselves, are as before
AccountsFrame ==
    \A o \in OwnerSet :
        /\ accUsers'[o].accounts = accUsers[o].accounts
        /\ accUsers'[o].posts = accUsers[o].posts
        /\ \A key \in AccountKeys :
              ~(Subscribed(accUsers[o], key) /\ InBatch(accBatch', key)) =>
                  accUsers'[o].stats[key] = accUsers[o].stats[key]

\* C40 as stated: for every document and every subscribed account present
\* in the batch, the four history fields are the same after the apply as
\* before, and the stats of every other account are unchanged.
C40_AsStated ==
    [][ApplyAccounts =>
          /\ AccountsFrame
          /\ \A o \in OwnerSet : \A key \in AccountKeys :
                (Subscribed(accUsers[o], key) /\ InBatch(accBatch', key)) =>
                    /\ accUsers'[o].stats[key].snap = accBatch'[key].snap
                    /\ \A f \in HistoryFields :
                          accUsers'[o].stats[key].hist[f]
                              = accUsers[o].stats[key].hist[f]]_vars

\* C40: for every document and every subscribed account present in the
\* batch, the stored snapshot becomes the batch's, and each of the four
\* history fields that the stored dict had before the apply is the same
\* after it; a history field that it lacked (or all four, when the stored
\* value was no dict) is afterwards what the payload carries for it, which
\* is nothing for a payload without history fields.  The stats of accounts
\* absent from the batch or not listed by the document, and the lists, are
\* unchanged.
C40_HistoryKept ==
    [][ApplyAccounts =>
          /\ AccountsFrame
          /\ \A o \in OwnerSet : \A key \in AccountKeys :
                (Subscribed(accUsers[o], key) /\ InBatch(accBatch', key)) =>
                    LET before == accUsers[o].stats[key]
                        after == accUsers'[o].stats[key]
                    IN  /\ after.kind = "dict"
                        /\ after.snap = accBatch'[key].snap
                        /\ \A f \in HistoryFields :
                              after.hist[f] =
                                  IF before.kind = "dict" /\ before.hist[f] # "absent"
                                  THEN before.hist[f]
                                  ELSE accBatch'[key].hist[f]]_vars

\* a batch has replaced the snapshot of a listed account whose history is
\* the stored one, next to an account outside the batch that is untouched
C40_Witness ==
    /\ accApplies > 0
    /\ \E key \in AccountKeys, other \in AccountKeys :
          /\ InBatch(accBatch, key) /\ ~InBatch(accBatch, other)
          /\ Subscribed(accUsers["u1"], key)
          /\ Subscribed(accUsers["u1"], other)
          /\ accUsers["u1"].stats[key].snap = accBatch[key].snap
          /\ accBatch[key].hist = AllFields("h2")
          /\ accUsers["u1"].stats[key].hist = AllFields("h1")
          /\ accUsers["u1"].stats[other] = AccountStats("s0", AllFields("h1"))

-----------------------------------------------------------------------------
(* Store: one writer at a time per document *)

InLock(p) == lkProc[p].pc \in {"read", "write", "release"}

\* C31: a thread that is between entering path_lock and leaving it for a
\* document holds that document's lock, so the consumer's read-modify-write
\* and a foreground update_user_data of one document never overlap; a
\* document changes only by the write of the lock's holder, and what that
\* write is computed from is the document as it stands, re-read inside the
\* lock; the write is followed by the release; and a thread waiting for a
\* document whose lock is free can take it whatever other locks are held.
C31_OneWriterPerDocument ==
    /\ [](\A p \in LockProcs : InLock(p) => lkHolder[lkProc[p].o] = p)
    /\ [](\A p \in LockProcs, q \in LockProcs :
              (p # q /\ InLock(p) /\ InLock(q)) => lkProc[p].o # lkProc[q].o)
    /\ [](\A p \in LockProcs :
              (lkProc[p].pc = "acquire" /\ lkHolder[lkProc[p].o] = "none")
                  => ENABLED Acquire(p))
    /\ [][\A o \in OwnerSet :
             lkFile'[o] # lkFile[o] =>
                 \E p \in LockProcs :
                     /\ lkHolder[o] = p /\ lkHolder'[o] = p
                     /\ lkProc[p].pc = "write" /\ lkProc'[p].pc = "release"
                     /\ lkProc[p].o = o
                     /\ lkProc[p].current = lkFile[o]
                     /\ lkFile'[o] = Mutated(lkProc[p])]_vars
    /\ [][\A p \in LockProcs :
             (lkProc[p].pc = "read" /\ lkProc'[p] # lkProc[p]) =>
                 /\ lkProc'[p].current = lkFile[lkProc[p].o]
                 /\ lkProc'[p].pc = "write"]_vars

\* the consumer is about to write a document for whose lock the event loop
\* waits
C31_Witness ==
    /\ lkProc["consumer"].pc = "write"
    /\ lkProc["loop"].pc = "acquire"
    /\ lkProc["loop"].o = lkProc["consumer"].o
    /\ lkHolder[lkProc["consumer"].o] = "consumer"

-----------------------------------------------------------------------------
(* Store: the view's write-back *)

ViewWritesBack == WriteBack("loop") /\ lkProc["loop"].op = "view"

\* C36: when the view writes back, whatever differs between the document
\* as it stands and the copy the view read without the lock (a snapshot
\* the consumer has stored since, a post added or removed since) is in the
\* document after the write-back as it was before it.
C36_NoLostUpdate ==
    [][ViewWritesBack =>
          LET o == lkProc["loop"].o
              read == lkProc["loop"].read
          IN  /\ \A key \in AccountKeys :
                    lkFile[o].stats[key].snap # read.stats[key].snap =>
                        lkFile'[o].stats[key].snap = lkFile[o].stats[key].snap
              /\ \A post \in Posts :
                    ((post \in lkFile[o].posts) # (post \in read.posts)) =>
                        ((post \in lkFile'[o].posts) = (post \in lkFile[o].posts))]_vars

-----------------------------------------------------------------------------
(* Heartbeat: what a reader of the record can see *)

\* C32: whatever the worker's position inside _health_update, the file
\* under HEALTH_PATH is the record the update found or the record it puts
\* in place, never a text cut short; what the watchdog reads is one of
\* these two records in full; and the record an update puts in place is
\* the one it found with the passed field group and updated_at_utc set
\* anew and every other field as it was.
C32_HeartbeatAtomic ==
    /\ [](hbFile.kind # "cut")
    /\ [](ReadRecord(hbFile) \in {hbProc.old, hbProc.payload})
    /\ [][WatchdogReads => hbSeen' \in {hbProc.old, hbProc.payload}]_vars
    /\ [][HealthReplace =>
             /\ hbFile.kind = "json" => hbFile.record = hbProc.old
             /\ hbFile'.kind = "json"
             /\ \E group \in FieldGroups :
                   /\ hbFile'.record[group] = hbProc.n
                   /\ hbFile'.record["updated_at_utc"] = hbProc.n
                   /\ \A other \in FieldGroups \ {group} :
                         hbFile'.record[other] = ReadRecord(hbFile)[other]]_vars
    /\ [][hbFile' # hbFile => HealthReplace]_vars

\* the watchdog has read the record while the worker stood between creating
\* the temp file and the replace, and the record it read has an earlier
\* update's group next to the fields of the run before
C32_Witness ==
    /\ hbProc.pc \in {"write", "replace"}
    /\ hbSeen = hbProc.old
    /\ hbSeen # EmptyRecord
    /\ hbSeen # hbProc.payload
    /\ \E g \in FieldGroups, h \in FieldGroups :
          g # h /\ hbSeen[g] > 0 /\ hbSeen[h] < 0

=============================================================================
